---- MODULE Spec2Model ----
(***************************************************************************)
(* A model of the trogonerror package: the TrogonError value, its          *)
(* construction options, copy-on-write WithChanges, the ErrorTemplate, and *)
(* the identity / unwrap hooks used by the standard errors.Is chain check. *)
(*                                                                         *)
(* Go pointers, slices and maps are reference types, so the model keeps an *)
(* explicit heap: every *TrogonError, *Help, *DebugInfo, metadata map and  *)
(* slice backing array is a cell of the heap and is named by its index;    *)
(* 0 is the nil pointer.  An operation of the package is an operator from  *)
(* a heap to a heap.                                                       *)
(***************************************************************************)
EXTENDS Integers, Sequences, FiniteSets, TLC

VARIABLES
    heap,   \* the program's memory (see EmptyHeap)
    last,   \* the last library call made by the program: its arguments and result
    thr     \* the goroutines of the concurrent scenarios: position and locals

vars == <<heap, last, thr>>

-----------------------------------------------------------------------------
(* Constants of the package *)

SpecVersion == 1

CodeCancelled == 1
CodeUnknown == 2
CodeInvalidArgument == 3
CodeDeadlineExceeded == 4
CodeNotFound == 5
CodeAlreadyExists == 6
CodePermissionDenied == 7
CodeResourceExhausted == 8
CodeFailedPrecondition == 9
CodeAborted == 10
CodeOutOfRange == 11
CodeUnimplemented == 12
CodeInternal == 13
CodeUnavailable == 14
CodeDataLoss == 15
CodeUnauthenticated == 16

VisibilityInternal == 0
VisibilityPrivate == 1
VisibilityPublic == 2

\* WithStackTrace's default depth, also captureStackTrace's fallback
DefaultStackDepth == 32

-----------------------------------------------------------------------------
(* Go values *)

\* nil of a pointer-to-scalar field (*time.Time, *time.Duration, *RetryInfo,
\* *LocalizedMessage): <<>> is nil, <<v>> points at v.  These cells are never
\* written through after they are made, so their address is not modelled.
NilPtr == <<>>
PtrTo(v) == <<v>>

\* An error interface value: the nil interface, a *TrogonError (ref is a cell
\* of heap.errs, 0 for a nil pointer inside a non-nil interface), a TrogonError
\* passed by value (ref is the cell holding that copy), or an error of another
\* package (ref is a cell of heap.exts).
NilErr == [kind |-> "nil", ref |-> 0]
PtrErr(p) == [kind |-> "ptr", ref |-> p]
ValErr(p) == [kind |-> "val", ref |-> p]
ExtErr(x) == [kind |-> "ext", ref |-> x]

\* A slice header.  arr names the backing array (a cell of the heap), 0 for the
\* nil slice.
NilSlice == [arr |-> 0, len |-> 0, cap |-> 0]

HelpLink(description, url) == [description |-> description, url |-> url]
ZeroHelpLink == HelpLink("", "")

MetadataValue(value, visibility) == [value |-> value, visibility |-> visibility]

\* A Go map as a function; the empty function is the empty map
EmptyMap == <<>>
MapPut(m, k, v) == [x \in (DOMAIN m) \cup {k} |-> IF x = k THEN v ELSE m[x]]
\* maps.Copy(dst, src)
MapsCopy(dst, src) ==
    [x \in (DOMAIN dst) \cup (DOMAIN src) |-> IF x \in DOMAIN src THEN src[x] ELSE dst[x]]

\* A runtime.Frame; the zero Frame is what CallersFrames yields for no pc
ZeroFrame == [File |-> "", Line |-> 0, Function |-> ""]
Frame(function) == [File |-> "file.go", Line |-> 1, Function |-> function]

Min(a, b) == IF a < b THEN a ELSE b

-----------------------------------------------------------------------------
(* The heap *)

\*  errs   TrogonError structs
\*  helps  Help structs (each holds the header of its links slice)
\*  larrs  backing arrays of []HelpLink
\*  carrs  backing arrays of []*TrogonError
\*  maps   metadata maps
\*  dbgs   DebugInfo structs
\*  exts   errors of other packages: [msg, inner], inner the error it wraps
\*  tmpls  ErrorTemplate structs
\*  stack  the call stack of the main goroutine, innermost frame first (the
\*         other goroutines keep theirs in thr)
\*  panic  TRUE once the program has panicked
EmptyHeap ==
    [errs |-> <<>>, helps |-> <<>>, larrs |-> <<>>, carrs |-> <<>>, maps |-> <<>>,
     dbgs |-> <<>>, exts |-> <<>>, tmpls |-> <<>>,
     stack |-> <<Frame("main.caller"), Frame("main.main"), Frame("runtime.main"),
                 Frame("runtime.goexit")>>,
     panic |-> FALSE]

Panic(h) == [h EXCEPT !.panic = TRUE]

\* Padding of a fresh backing array up to its capacity
RECURSIVE Zeros(_, _)
Zeros(n, zero) == IF n <= 0 THEN <<>> ELSE <<zero>> \o Zeros(n - 1, zero)

\* The elements of a slice: the first len cells of its backing array
SliceElems(arrs, s) == IF s.arr = 0 THEN <<>> ELSE SubSeq(arrs[s.arr], 1, s.len)

\* The runtime's nextslicecap loop for capacities from 256 on: grow by a
\* quarter and 192 until the needed length fits
RECURSIVE GrowCap(_, _)
GrowCap(newcap, newLen) ==
    LET n == newcap + ((newcap + 768) \div 4)
    IN IF n >= newLen THEN n ELSE GrowCap(n, newLen)

\* Capacity of the array append asks for when the slice is full (the runtime's
\* nextslicecap): the needed length if it is more than double, double below
\* 256, GrowCap from 256 on.
NextSliceCap(newLen, oldCap) ==
    IF newLen > 2 * oldCap THEN newLen
    ELSE IF oldCap < 256 THEN 2 * oldCap
    ELSE GrowCap(oldCap, newLen)

\* The allocator's size classes for small objects, in bytes
SizeClasses ==
    <<8, 16, 24, 32, 48, 64, 80, 96, 112, 128, 144, 160, 176, 192, 208, 224, 240, 256,
      288, 320, 352, 384, 416, 448, 480, 512, 576, 640, 704, 768, 896, 1024, 1152, 1280,
      1408, 1536, 1792, 2048, 2304, 2688, 3072, 3200, 3456, 4096, 4864, 5376, 6144,
      6528, 6784, 6912, 8192, 9472, 9728, 10240, 10880, 12288, 13568, 14336, 16384, 18432,
      19072, 20480, 21760, 24576, 27264, 28672, 32768>>

\* The runtime's roundupsize for memory that holds pointers, on a 64-bit
\* platform: the bytes usable in the block a request of size bytes gets.  A
\* small object of more than 512 bytes has an 8-byte header in its block; a
\* large object takes whole pages of 8192 bytes.
RoundUpSize(size) ==
    IF size = 0 THEN 0
    ELSE IF size > 32760 THEN ((size + 8191) \div 8192) * 8192
    ELSE LET header == IF size > 512 THEN 8 ELSE 0
             i == CHOOSE i \in 1..Len(SizeClasses) :
                      /\ SizeClasses[i] >= size + header
                      /\ i = 1 \/ SizeClasses[i - 1] < size + header
         IN SizeClasses[i] - header

\* The capacity growslice gives a slice of n 32-byte elements (HelpLink)
RoundCapLink(n) == RoundUpSize(32 * n) \div 32
\* The capacity growslice gives a slice of n 8-byte elements (*TrogonError)
RoundCapPtr(n) == RoundUpSize(8 * n) \div 8

\* append(s, xs...) on the arrays arrs: writes in place when the capacity
\* allows it, otherwise moves the elements to a fresh array of capacity newCap.
\* The result is the new arrays and the new slice header.
AppendTo(arrs, s, xs, zero, newCap) ==
    LET n == s.len + Len(xs) IN
    IF Len(xs) = 0 THEN [arrs |-> arrs, s |-> s]
    ELSE IF n <= s.cap
    THEN [arrs |-> [arrs EXCEPT ![s.arr] =
                        SubSeq(@, 1, s.len) \o xs \o SubSeq(@, n + 1, Len(@))],
          s |-> [s EXCEPT !.len = n]]
    ELSE [arrs |-> Append(arrs, SliceElems(arrs, s) \o xs \o Zeros(newCap - n, zero)),
          s |-> [arr |-> Len(arrs) + 1, len |-> n, cap |-> newCap]]

AppendLinks(arrs, s, xs) ==
    AppendTo(arrs, s, xs, ZeroHelpLink, RoundCapLink(NextSliceCap(s.len + Len(xs), s.cap)))

AppendCauses(arrs, s, xs) ==
    AppendTo(arrs, s, xs, 0, RoundCapPtr(NextSliceCap(s.len + Len(xs), s.cap)))

-----------------------------------------------------------------------------
(* Option closures.  Each operator is the body of the closure the Go function *)
(* of the same name returns, applied to the error at e.                       *)

\* WithCode, keeping a code an earlier option set
WithCodeKeepingFirst(h, e, code) ==
    IF h.errs[e].code # CodeUnknown THEN h ELSE [h EXCEPT !.errs[e].code = code]

WithCode(h, e, code) == [h EXCEPT !.errs[e].code = code]

WithMessage(h, e, message) == [h EXCEPT !.errs[e].message = message]

\* maps.Copy into e.metadata; a write into a nil map panics
WithMetadata(h, e, metadata) ==
    LET mp == h.errs[e].metadata IN
    IF DOMAIN metadata = {} THEN h
    ELSE IF mp = 0 THEN Panic(h)
    ELSE [h EXCEPT !.maps[mp] = MapsCopy(@, metadata)]

addMetadataValue(h, e, visibility, key, value) ==
    LET mp == h.errs[e].metadata
        h1 == IF mp = 0 \/ DOMAIN h.maps[mp] = {}
              THEN [h EXCEPT !.maps = Append(@, EmptyMap),
                             !.errs[e].metadata = Len(h.maps) + 1]
              ELSE h
        mp1 == h1.errs[e].metadata
    IN [h1 EXCEPT !.maps[mp1] = MapPut(@, key, MetadataValue(value, visibility))]

WithMetadataValue(h, e, visibility, key, value) ==
    addMetadataValue(h, e, visibility, key, value)

WithVisibility(h, e, visibility) == [h EXCEPT !.errs[e].visibility = visibility]

WithSubject(h, e, subject) == [h EXCEPT !.errs[e].subject = subject]

WithID(h, e, id) == [h EXCEPT !.errs[e].id = id]

WithTime(h, e, timestamp) == [h EXCEPT !.errs[e].time = PtrTo(timestamp)]

WithSourceID(h, e, sourceID) == [h EXCEPT !.errs[e].sourceID = sourceID]

\* e.help = &help: help is the variable the closure captured, the same cell at
\* every application of one option value
WithHelp(h, e, help) == [h EXCEPT !.errs[e].help = help]

addHelpLink(h, e, description, url) ==
    LET h1 == IF h.errs[e].help = 0
              THEN [h EXCEPT !.helps = Append(@, [links |-> NilSlice]),
                             !.errs[e].help = Len(h.helps) + 1]
              ELSE h
        hp == h1.errs[e].help
        r == AppendLinks(h1.larrs, h1.helps[hp].links, <<HelpLink(description, url)>>)
    IN [h1 EXCEPT !.larrs = r.arrs, !.helps[hp].links = r.s]

WithHelpLink(h, e, description, url) == addHelpLink(h, e, description, url)

\* e.debugInfo = &debugInfo, the closure's captured variable
WithDebugInfo(h, e, debugInfo) == [h EXCEPT !.errs[e].debugInfo = debugInfo]

\* WithDebugDetail, always replacing the debug info by one without frames
WithDebugDetailFresh(h, e, detail) ==
    [h EXCEPT !.dbgs = Append(@, [stackFrames |-> <<>>, detail |-> detail]),
              !.errs[e].debugInfo = Len(h.dbgs) + 1]

WithDebugDetail(h, e, detail) ==
    IF h.errs[e].debugInfo = 0
    THEN [h EXCEPT !.dbgs = Append(@, [stackFrames |-> <<>>, detail |-> detail]),
                   !.errs[e].debugInfo = Len(h.dbgs) + 1]
    ELSE [h EXCEPT !.dbgs[h.errs[e].debugInfo].detail = detail]

\* captureStackTrace, without the default depth
captureStackTraceNoDefault(stack, skip, maxDepth) ==
    LET depth == IF maxDepth <= 0 THEN 0 ELSE maxDepth
        full == <<Frame("runtime.Callers"), Frame("github.com/TrogonStack/trogonerror.captureStackTrace")>> \o stack
        rest == SubSeq(full, skip + 1, Len(full))
        pcs == SubSeq(rest, 1, Min(depth, Len(rest)))
    IN IF Len(pcs) = 0 THEN <<ZeroFrame>> ELSE pcs

\* runtime.Callers(skip, pcs) with len(pcs) = maxDepth, called from
\* captureStackTrace, itself called with the call stack `stack`: skip 0 names
\* Callers itself, skip 1 its caller.  CallersFrames.Next yields one frame even
\* when no pc was recorded (the zero Frame).
captureStackTrace(stack, skip, maxDepth) ==
    LET depth == IF maxDepth <= 0 THEN DefaultStackDepth ELSE maxDepth
        full == <<Frame("runtime.Callers"), Frame("github.com/TrogonStack/trogonerror.captureStackTrace")>> \o stack
        rest == SubSeq(full, skip + 1, Len(full))
        pcs == SubSeq(rest, 1, Min(depth, Len(rest)))
    IN IF Len(pcs) = 0 THEN <<ZeroFrame>> ELSE pcs

WithStackTraceDepth(h, e, maxDepth) ==
    LET stackFrames ==
            captureStackTrace(<<Frame("github.com/TrogonStack/trogonerror.WithStackTraceDepth.func1")>> \o h.stack,
                              2, maxDepth)
    IN IF h.errs[e].debugInfo = 0
       THEN [h EXCEPT !.dbgs = Append(@, [stackFrames |-> stackFrames, detail |-> ""]),
                      !.errs[e].debugInfo = Len(h.dbgs) + 1]
       ELSE [h EXCEPT !.dbgs[h.errs[e].debugInfo].stackFrames = stackFrames]

WithStackTrace(h, e) == WithStackTraceDepth(h, e, DefaultStackDepth)

WithLocalizedMessage(h, e, locale, message) ==
    [h EXCEPT !.errs[e].localizedMessage = PtrTo([locale |-> locale, message |-> message])]

WithRetryInfoDuration(h, e, retryOffset) ==
    [h EXCEPT !.errs[e].retryInfo =
        PtrTo([retryOffset |-> PtrTo(retryOffset), retryTime |-> NilPtr])]

WithRetryTime(h, e, retryTime) ==
    [h EXCEPT !.errs[e].retryInfo =
        PtrTo([retryOffset |-> NilPtr, retryTime |-> PtrTo(retryTime)])]

\* WithCause, also taking the first cause as the wrapped error
WithCauseWrapping(h, e, causes) ==
    LET r == AppendCauses(h.carrs, h.errs[e].causes, causes)
    IN [h EXCEPT !.carrs = r.arrs, !.errs[e].causes = r.s,
                 !.errs[e].wrappedErr = IF Len(causes) > 0 THEN PtrErr(causes[1]) ELSE @]

WithCause(h, e, causes) ==
    LET r == AppendCauses(h.carrs, h.errs[e].causes, causes)
    IN [h EXCEPT !.carrs = r.arrs, !.errs[e].causes = r.s]

WithWrap(h, e, err) == [h EXCEPT !.errs[e].wrappedErr = err]


-----------------------------------------------------------------------------
(* Strings *)

\* unicode.IsSpace on the characters a string of the model can hold, which
\* are ASCII characters: tab, line feed, vertical tab, form feed, carriage
\* return, space
IsSpace(c) == c \in {"\t", "\n", "", "\f", "\r", " "}

RECURSIVE TrimLeft(_)
TrimLeft(s) ==
    IF Len(s) > 0 /\ IsSpace(SubSeq(s, 1, 1)) THEN TrimLeft(SubSeq(s, 2, Len(s))) ELSE s

RECURSIVE TrimRight(_)
TrimRight(s) ==
    IF Len(s) > 0 /\ IsSpace(SubSeq(s, Len(s), Len(s)))
    THEN TrimRight(SubSeq(s, 1, Len(s) - 1)) ELSE s

\* strings.TrimSpace
TrimSpace(s) == TrimRight(TrimLeft(s))

\* fmt.Sprintf for string arguments and the verbs %s, %v, %d and %%
RECURSIVE SprintfFrom(_, _)
SprintfFrom(format, args) ==
    IF Len(format) = 0
    THEN [out |-> "", left |-> args]
    ELSE LET c == SubSeq(format, 1, 1) IN
         IF c # "%"
         THEN LET r == SprintfFrom(SubSeq(format, 2, Len(format)), args)
              IN [r EXCEPT !.out = c \o @]
         ELSE IF Len(format) = 1
         THEN [out |-> "%!(NOVERB)", left |-> args]
         ELSE LET v == SubSeq(format, 2, 2)
                  rest == SubSeq(format, 3, Len(format))
              IN IF v = "%"
                 THEN LET r == SprintfFrom(rest, args) IN [r EXCEPT !.out = "%" \o @]
                 ELSE IF Len(args) = 0
                 THEN LET r == SprintfFrom(rest, args)
                      IN [r EXCEPT !.out = ("%!" \o v \o "(MISSING)") \o @]
                 ELSE LET r == SprintfFrom(rest, Tail(args))
                          a == IF v \in {"s", "v"} THEN Head(args)
                               ELSE "%!" \o v \o "(string=" \o Head(args) \o ")"
                      IN [r EXCEPT !.out = a \o @]

RECURSIVE ExtraArgs(_)
ExtraArgs(args) ==
    IF Len(args) = 0 THEN ""
    ELSE "string=" \o Head(args) \o
         (IF Len(args) > 1 THEN ", " \o ExtraArgs(Tail(args)) ELSE "")

Sprintf(format, args) ==
    LET r == SprintfFrom(format, args)
    IN IF Len(r.left) = 0 THEN r.out ELSE r.out \o "%!(EXTRA " \o ExtraArgs(r.left) \o ")"

WithMetadataValuef(h, e, visibility, key, valueFormat, args) ==
    addMetadataValue(h, e, visibility, key, Sprintf(valueFormat, args))

WithHelpLinkf(h, e, description, urlFormat, args) ==
    addHelpLink(h, e, description, Sprintf(urlFormat, args))

-----------------------------------------------------------------------------
(* Code and Visibility *)

\* Code.Message, with no message for a value that is not a code
CodeMessageOfCodesOnly(c) ==
    CASE c = CodeCancelled -> "the operation was cancelled"
      [] c = CodeUnknown -> "unknown error"
      [] c = CodeInvalidArgument -> "invalid argument provided"
      [] c = CodeDeadlineExceeded -> "deadline exceeded"
      [] c = CodeNotFound -> "resource not found"
      [] c = CodeAlreadyExists -> "resource already exists"
      [] c = CodePermissionDenied -> "permission denied"
      [] c = CodeUnauthenticated -> "unauthenticated"
      [] c = CodeResourceExhausted -> "resource exhausted"
      [] c = CodeFailedPrecondition -> "failed precondition"
      [] c = CodeAborted -> "operation aborted"
      [] c = CodeOutOfRange -> "out of range"
      [] c = CodeUnimplemented -> "not implemented"
      [] c = CodeInternal -> "internal error"
      [] c = CodeUnavailable -> "service unavailable"
      [] c = CodeDataLoss -> "data loss or corruption"
      [] OTHER -> ""

CodeMessage(c) ==
    CASE c = CodeCancelled -> "the operation was cancelled"
      [] c = CodeUnknown -> "unknown error"
      [] c = CodeInvalidArgument -> "invalid argument provided"
      [] c = CodeDeadlineExceeded -> "deadline exceeded"
      [] c = CodeNotFound -> "resource not found"
      [] c = CodeAlreadyExists -> "resource already exists"
      [] c = CodePermissionDenied -> "permission denied"
      [] c = CodeUnauthenticated -> "unauthenticated"
      [] c = CodeResourceExhausted -> "resource exhausted"
      [] c = CodeFailedPrecondition -> "failed precondition"
      [] c = CodeAborted -> "operation aborted"
      [] c = CodeOutOfRange -> "out of range"
      [] c = CodeUnimplemented -> "not implemented"
      [] c = CodeInternal -> "internal error"
      [] c = CodeUnavailable -> "service unavailable"
      [] c = CodeDataLoss -> "data loss or corruption"
      [] OTHER -> "unknown error"

HttpStatusCode(c) ==
    CASE c = CodeCancelled -> 499
      [] c = CodeUnknown -> 500
      [] c = CodeInvalidArgument -> 400
      [] c = CodeDeadlineExceeded -> 504
      [] c = CodeNotFound -> 404
      [] c = CodeAlreadyExists -> 409
      [] c = CodePermissionDenied -> 403
      [] c = CodeResourceExhausted -> 429
      [] c = CodeFailedPrecondition -> 400
      [] c = CodeAborted -> 409
      [] c = CodeOutOfRange -> 400
      [] c = CodeUnimplemented -> 501
      [] c = CodeInternal -> 500
      [] c = CodeUnavailable -> 503
      [] c = CodeDataLoss -> 500
      [] c = CodeUnauthenticated -> 401
      [] OTHER -> 500

CodeString(c) ==
    CASE c = CodeCancelled -> "CANCELLED"
      [] c = CodeUnknown -> "UNKNOWN"
      [] c = CodeInvalidArgument -> "INVALID_ARGUMENT"
      [] c = CodeDeadlineExceeded -> "DEADLINE_EXCEEDED"
      [] c = CodeNotFound -> "NOT_FOUND"
      [] c = CodeAlreadyExists -> "ALREADY_EXISTS"
      [] c = CodePermissionDenied -> "PERMISSION_DENIED"
      [] c = CodeResourceExhausted -> "RESOURCE_EXHAUSTED"
      [] c = CodeFailedPrecondition -> "FAILED_PRECONDITION"
      [] c = CodeAborted -> "ABORTED"
      [] c = CodeOutOfRange -> "OUT_OF_RANGE"
      [] c = CodeUnimplemented -> "UNIMPLEMENTED"
      [] c = CodeInternal -> "INTERNAL"
      [] c = CodeUnavailable -> "UNAVAILABLE"
      [] c = CodeDataLoss -> "DATA_LOSS"
      [] c = CodeUnauthenticated -> "UNAUTHENTICATED"
      [] OTHER -> "UNKNOWN"

VisibilityString(v) ==
    CASE v = VisibilityInternal -> "INTERNAL"
      [] v = VisibilityPrivate -> "PRIVATE"
      [] v = VisibilityPublic -> "PUBLIC"
      [] OTHER -> "UNKNOWN"

-----------------------------------------------------------------------------
(* Accessors *)

\* Message, without the default message of the code
MessageFieldOnly(h, e) == h.errs[e].message

Message(h, e) ==
    IF h.errs[e].message # "" THEN h.errs[e].message ELSE CodeMessage(h.errs[e].code)

\* The map Metadata() returns, by content
Metadata(h, e) == IF h.errs[e].metadata = 0 THEN EmptyMap ELSE h.maps[h.errs[e].metadata]

\* The slice Causes() returns, by content
Causes(h, e) == SliceElems(h.carrs, h.errs[e].causes)

\* Help().Links(), by content; <<>> when the error has no help
Links(h, e) ==
    IF h.errs[e].help = 0 THEN <<>> ELSE SliceElems(h.larrs, h.helps[h.errs[e].help].links)

\* Unwrap, never reporting a wrapped error
UnwrapNothing(h, e) == NilErr

Unwrap(h, e) == h.errs[e].wrappedErr


-----------------------------------------------------------------------------
(* The formatter *)

\* The characters a string of the model can hold (ASCII without the backquote
\* and the other control characters), in the order of their codes
Alphabet ==
    "\t\n\f\r !\"#$%&'()*+,-./0123456789:;<=>?@ABCDEFGHIJKLMNOPQRSTUVWXYZ[\\]^_"
        \o "abcdefghijklmnopqrstuvwxyz{|}~"

\* a < b for strings: cmp.Less on string, the comparison of the bytes
StrLess(a, b) ==
    LET CharRank(c) == CHOOSE i \in 1..Len(Alphabet) : SubSeq(Alphabet, i, i) = c
    IN \E i \in 1..(Min(Len(a), Len(b)) + 1) :
          /\ SubSeq(a, 1, i - 1) = SubSeq(b, 1, i - 1)
          /\ IF i > Len(a) THEN i <= Len(b)
             ELSE i <= Len(b) /\ CharRank(SubSeq(a, i, i)) < CharRank(SubSeq(b, i, i))

\* slices.Sorted: the strings of a set in ascending order
RECURSIVE Sorted(_)
Sorted(S) ==
    IF S = {} THEN <<>>
    ELSE LET k == CHOOSE k \in S : \A j \in S \ {k} : StrLess(k, j)
         IN <<k>> \o Sorted(S \ {k})

\* The keys of a map in descending order
SortedKeysDescending(m) ==
    LET s == Sorted(DOMAIN m) IN [i \in 1..Len(s) |-> s[Len(s) + 1 - i]]

\* slices.Sorted(maps.Keys(m))
SortedKeys(m) == Sorted(DOMAIN m)

TwoDigits(n) == IF n < 10 THEN "0" \o ToString(n) ELSE ToString(n)

\* time.Time.Format(time.RFC3339); a time is a number of seconds (below 3600)
\* after 2024-01-01T12:00:00Z
FormatRFC3339(t) ==
    "2024-01-01T12:" \o TwoDigits(t \div 60) \o ":" \o TwoDigits(t % 60) \o "Z"

\* time.Duration.String(); a duration is a whole number of seconds below an hour
DurationString(d) ==
    IF d < 0 THEN "-" \o (IF -d < 60 THEN ToString(-d) \o "s"
                          ELSE ToString((-d) \div 60) \o "m" \o ToString((-d) % 60) \o "s")
    ELSE IF d < 60 THEN ToString(d) \o "s"
    ELSE ToString(d \div 60) \o "m" \o ToString(d % 60) \o "s"

\* DebugInfo.StackFrames: a new slice holding the frames, nil when there are none
StackFrames(d) == [i \in 1..Len(d.stackFrames) |-> d.stackFrames[i]]

StackEntries(d) ==
    [i \in 1..Len(d.stackFrames) |->
        d.stackFrames[i].File \o ":" \o ToString(d.stackFrames[i].Line) \o " "
            \o d.stackFrames[i].Function]

RECURSIVE JoinLines(_, _)
JoinLines(prefix, lines) ==
    IF Len(lines) = 0 THEN "" ELSE prefix \o Head(lines) \o JoinLines(prefix, Tail(lines))

RECURSIVE MetadataLines(_, _)
MetadataLines(m, keys) ==
    IF Len(keys) = 0 THEN ""
    ELSE "\n    - " \o Head(keys) \o ": " \o m[Head(keys)].value
             \o " visibility=" \o VisibilityString(m[Head(keys)].visibility)
             \o MetadataLines(m, Tail(keys))

\* The help lines with a blank line between two links
RECURSIVE HelpLinesBlankBetween(_, _)
HelpLinesBlankBetween(links, i) ==
    IF i > Len(links) THEN ""
    ELSE (IF i > 1 THEN "\n\n" ELSE "")
             \o "- " \o links[i].description \o ": " \o links[i].url
             \o HelpLinesBlankBetween(links, i + 1)

RECURSIVE HelpLines(_, _)
HelpLines(links, i) ==
    IF i > Len(links) THEN ""
    ELSE (IF i > 1 THEN "\n" ELSE "")
             \o "- " \o links[i].description \o ": " \o links[i].url
             \o HelpLines(links, i + 1)

\* err.Error() panics: a method call on the nil interface, a value-receiver
\* method on a nil *TrogonError, or a TrogonError whose wrapped error panics
RECURSIVE ErrorPanics(_, _)
ErrorPanics(h, err) ==
    CASE err.kind = "nil" -> TRUE
      [] err.kind = "ext" -> FALSE
      [] OTHER -> \/ err.ref = 0
                  \/ /\ h.errs[err.ref].wrappedErr.kind # "nil"
                     /\ ErrorPanics(h, h.errs[err.ref].wrappedErr)

RECURSIVE Error(_, _)
\* The text of an error, a TrogonError giving its message only
ErrorStringMessageOnly(h, err) ==
    IF err.kind = "ext" THEN h.exts[err.ref].msg ELSE Message(h, err.ref)

\* err.Error() for an error interface value
ErrorString(h, err) == IF err.kind = "ext" THEN h.exts[err.ref].msg ELSE Error(h, err.ref)

\* TrogonError.Error, writing the subject line before the id line
ErrorSubjectFirst(h, e) ==
    LET x == h.errs[e]
        m == Metadata(h, e)
        links == Links(h, e)
    IN TrimSpace(Message(h, e))
       \o "\n  visibility: " \o VisibilityString(x.visibility)
       \o "\n  domain: " \o x.domain
       \o "\n  reason: " \o x.reason
       \o "\n  code: " \o CodeString(x.code)
       \o (IF x.subject # "" THEN "\n  subject: " \o x.subject ELSE "")
       \o (IF x.id # "" THEN "\n  id: " \o x.id ELSE "")
       \o (IF x.time # NilPtr THEN "\n  time: " \o FormatRFC3339(x.time[1]) ELSE "")
       \o (IF x.sourceID # "" THEN "\n  sourceId: " \o x.sourceID ELSE "")
       \o (IF x.retryInfo # NilPtr
           THEN "\n  retryInfo: "
                \o (IF x.retryInfo[1].retryOffset # NilPtr
                    THEN "retryOffset=" \o DurationString(x.retryInfo[1].retryOffset[1])
                    ELSE IF x.retryInfo[1].retryTime # NilPtr
                    THEN "retryTime=" \o FormatRFC3339(x.retryInfo[1].retryTime[1])
                    ELSE "")
           ELSE "")
       \o (IF DOMAIN m # {} THEN "\n  metadata:" \o MetadataLines(m, SortedKeys(m)) ELSE "")
       \o (IF Len(links) > 0 THEN "\n\n" \o HelpLines(links, 1) ELSE "")
       \o (IF x.wrappedErr.kind # "nil"
           THEN "\n\nwrapped error: " \o ErrorString(h, x.wrappedErr) ELSE "")
       \o (IF x.debugInfo # 0
           THEN "\n"
                \o (IF h.dbgs[x.debugInfo].detail # ""
                    THEN "\n" \o h.dbgs[x.debugInfo].detail ELSE "")
                \o JoinLines("\n", StackEntries(h.dbgs[x.debugInfo]))
           ELSE "")

\* TrogonError.Error
Error(h, e) ==
    LET x == h.errs[e]
        m == Metadata(h, e)
        links == Links(h, e)
    IN TrimSpace(Message(h, e))
       \o "\n  visibility: " \o VisibilityString(x.visibility)
       \o "\n  domain: " \o x.domain
       \o "\n  reason: " \o x.reason
       \o "\n  code: " \o CodeString(x.code)
       \o (IF x.id # "" THEN "\n  id: " \o x.id ELSE "")
       \o (IF x.time # NilPtr THEN "\n  time: " \o FormatRFC3339(x.time[1]) ELSE "")
       \o (IF x.subject # "" THEN "\n  subject: " \o x.subject ELSE "")
       \o (IF x.sourceID # "" THEN "\n  sourceId: " \o x.sourceID ELSE "")
       \o (IF x.retryInfo # NilPtr
           THEN "\n  retryInfo: "
                \o (IF x.retryInfo[1].retryOffset # NilPtr
                    THEN "retryOffset=" \o DurationString(x.retryInfo[1].retryOffset[1])
                    ELSE IF x.retryInfo[1].retryTime # NilPtr
                    THEN "retryTime=" \o FormatRFC3339(x.retryInfo[1].retryTime[1])
                    ELSE "")
           ELSE "")
       \o (IF DOMAIN m # {} THEN "\n  metadata:" \o MetadataLines(m, SortedKeys(m)) ELSE "")
       \o (IF Len(links) > 0 THEN "\n\n" \o HelpLines(links, 1) ELSE "")
       \o (IF x.wrappedErr.kind # "nil"
           THEN "\n\nwrapped error: " \o ErrorString(h, x.wrappedErr) ELSE "")
       \o (IF x.debugInfo # 0
           THEN "\n"
                \o (IF h.dbgs[x.debugInfo].detail # ""
                    THEN "\n" \o h.dbgs[x.debugInfo].detail ELSE "")
                \o JoinLines("\n", StackEntries(h.dbgs[x.debugInfo]))
           ELSE "")

WithErrorMessage(h, e, err) ==
    IF ErrorPanics(h, err) THEN Panic(h)
    ELSE [h EXCEPT !.errs[e].message = ErrorString(h, err)]

-----------------------------------------------------------------------------
(* Identity and the errors.Is chain check *)

\* reflect's Comparable of the target's dynamic type: a TrogonError struct holds
\* a map and slices, so a TrogonError passed by value is not comparable
Comparable(target) == target.kind # "val"

\* err == target on interface values of comparable dynamic type
SameError(err, target) == err.kind = target.kind /\ err.ref = target.ref

RECURSIVE Is(_, _, _)
RECURSIVE ErrorsIsLoop(_, _, _)

\* errors.Is(err, target)
ErrorsIs(h, err, target) ==
    IF err.kind = "nil" \/ target.kind = "nil"
    THEN err.kind = target.kind
    ELSE ErrorsIsLoop(h, err, target)

\* The loop of the standard library's chain check: compare, ask the layer's Is
\* method, unwrap one layer.  Only TrogonError layers have an Is method.
ErrorsIsLoop(h, err, target) ==
    \/ Comparable(target) /\ SameError(err, target)
    \/ err.kind \in {"ptr", "val"} /\ Is(h, err.ref, target)
    \/ LET next == IF err.kind = "ext" THEN h.exts[err.ref].inner
                   ELSE Unwrap(h, err.ref)
       IN next.kind # "nil" /\ ErrorsIsLoop(h, next, target)

\* Is, comparing the domain alone
IsDomainOnly(h, e, target) ==
    CASE target.kind \in {"ptr", "val"} -> h.errs[e].domain = h.errs[target.ref].domain
      [] OTHER -> ErrorsIs(h, h.errs[e].wrappedErr, target)

\* TrogonError.Is
Is(h, e, target) ==
    CASE target.kind = "ptr" ->
             /\ h.errs[e].domain = h.errs[target.ref].domain
             /\ h.errs[e].reason = h.errs[target.ref].reason
      [] target.kind = "val" ->
             /\ h.errs[e].domain = h.errs[target.ref].domain
             /\ h.errs[e].reason = h.errs[target.ref].reason
      [] OTHER -> ErrorsIs(h, h.errs[e].wrappedErr, target)


-----------------------------------------------------------------------------
(* Construction *)

\* An option value: the Go function that made the closure (k) and the values
\* the closure captured.  c is the address of the captured variable for the
\* options that take its address (WithHelp, WithDebugInfo).
Option(k) ==
    [k |-> k, s |-> "", t |-> "", n |-> 0, c |-> 0, m |-> EmptyMap, ps |-> <<>>,
     args |-> <<>>, err |-> NilErr]

\* option(err)
ApplyOption(h, e, o) ==
    CASE o.k = "WithCode" -> WithCode(h, e, o.n)
      [] o.k = "WithMessage" -> WithMessage(h, e, o.s)
      [] o.k = "WithMetadata" -> WithMetadata(h, e, o.m)
      [] o.k = "WithMetadataValue" -> WithMetadataValue(h, e, o.n, o.s, o.t)
      [] o.k = "WithMetadataValuef" -> WithMetadataValuef(h, e, o.n, o.s, o.t, o.args)
      [] o.k = "WithVisibility" -> WithVisibility(h, e, o.n)
      [] o.k = "WithSubject" -> WithSubject(h, e, o.s)
      [] o.k = "WithID" -> WithID(h, e, o.s)
      [] o.k = "WithTime" -> WithTime(h, e, o.n)
      [] o.k = "WithSourceID" -> WithSourceID(h, e, o.s)
      [] o.k = "WithHelp" -> WithHelp(h, e, o.c)
      [] o.k = "WithHelpLink" -> WithHelpLink(h, e, o.s, o.t)
      [] o.k = "WithHelpLinkf" -> WithHelpLinkf(h, e, o.s, o.t, o.args)
      [] o.k = "WithDebugInfo" -> WithDebugInfo(h, e, o.c)
      [] o.k = "WithStackTrace" -> WithStackTrace(h, e)
      [] o.k = "WithDebugDetail" -> WithDebugDetail(h, e, o.s)
      [] o.k = "WithStackTraceDepth" -> WithStackTraceDepth(h, e, o.n)
      [] o.k = "WithLocalizedMessage" -> WithLocalizedMessage(h, e, o.s, o.t)
      [] o.k = "WithRetryInfoDuration" -> WithRetryInfoDuration(h, e, o.n)
      [] o.k = "WithRetryTime" -> WithRetryTime(h, e, o.n)
      [] o.k = "WithCause" -> WithCause(h, e, o.ps)
      [] o.k = "WithErrorMessage" -> WithErrorMessage(h, e, o.err)
      [] o.k = "WithWrap" -> WithWrap(h, e, o.err)

\* for _, option := range options { option(err) }; a panic ends the loop
RECURSIVE ApplyOptions(_, _, _)
ApplyOptions(h, e, options) ==
    IF Len(options) = 0 \/ h.panic THEN h
    ELSE ApplyOptions(ApplyOption(h, e, Head(options)), e, Tail(options))

Push(h, function) == [h EXCEPT !.stack = <<Frame(function)>> \o @]
Pop(h) == [h EXCEPT !.stack = Tail(@)]

\* The result of a constructor: the heap after the call and the pointer returned
Ret(h, p) == [h |-> h, p |-> p]

NewError(h, domain, reason, options) ==
    LET p == Len(h.errs) + 1
        err == [specVersion |-> SpecVersion,
                code |-> CodeUnknown,
                message |-> "",
                domain |-> domain,
                reason |-> reason,
                metadata |-> Len(h.maps) + 1,
                causes |-> [arr |-> Len(h.carrs) + 1, len |-> 0, cap |-> 0],
                visibility |-> VisibilityInternal,
                subject |-> "",
                id |-> "",
                time |-> NilPtr,
                help |-> 0,
                debugInfo |-> 0,
                localizedMessage |-> NilPtr,
                retryInfo |-> NilPtr,
                sourceID |-> "",
                wrappedErr |-> NilErr]
        h1 == [Push(h, "github.com/TrogonStack/trogonerror.NewError") EXCEPT
                  !.errs = Append(@, err),
                  !.maps = Append(@, EmptyMap),
                  !.carrs = Append(@, <<>>)]
    IN Ret(Pop(ApplyOptions(h1, p, options)), p)

-----------------------------------------------------------------------------
(* Copy-on-write *)

\* Help.copy, copying the header of links and not the links
HelpCopyHeaderOnly(h, help) == [larrs |-> h.larrs, links |-> h.helps[help].links]

\* Help.copy, on the heap: the header of the copy's links
HelpCopy(h, help) ==
    LET links == h.helps[help].links IN
    IF links.len = 0
    THEN [larrs |-> h.larrs, links |-> NilSlice]
    ELSE [larrs |-> Append(h.larrs, SliceElems(h.larrs, links)),
          links |-> [arr |-> Len(h.larrs) + 1, len |-> links.len, cap |-> links.len]]

\* DebugInfo.copy
DebugInfoCopy(d) ==
    IF Len(d.stackFrames) = 0
    THEN [stackFrames |-> <<>>, detail |-> d.detail]
    ELSE [stackFrames |-> d.stackFrames, detail |-> d.detail]

\* TrogonError.copy
\* copy as a copy of the struct: clonedErr := *e
copyShallow(h, e) == Ret([h EXCEPT !.errs = Append(@, h.errs[e])], Len(h.errs) + 1)

\* copy that leaves the wrapped error out of the clone
copyWithoutWrapped(h, e) ==
    Ret([h EXCEPT !.errs = Append(@, [h.errs[e] EXCEPT !.wrappedErr = NilErr])],
        Len(h.errs) + 1)

copy(h, e) ==
    LET x == h.errs[e]
        p == Len(h.errs) + 1
        hasMeta == x.metadata # 0 /\ DOMAIN h.maps[x.metadata] # {}
        hasCauses == x.causes.len > 0
        hc == IF x.help # 0 THEN HelpCopy(h, x.help)
              ELSE [larrs |-> h.larrs, links |-> NilSlice]
        clonedErr ==
            [specVersion |-> x.specVersion,
             code |-> x.code,
             message |-> x.message,
             domain |-> x.domain,
             reason |-> x.reason,
             metadata |-> IF hasMeta THEN Len(h.maps) + 1 ELSE 0,
             causes |-> IF hasCauses
                        THEN [arr |-> Len(h.carrs) + 1, len |-> x.causes.len,
                              cap |-> x.causes.len]
                        ELSE NilSlice,
             visibility |-> x.visibility,
             subject |-> x.subject,
             id |-> x.id,
             time |-> x.time,
             help |-> IF x.help # 0 THEN Len(h.helps) + 1 ELSE 0,
             debugInfo |-> IF x.debugInfo # 0 THEN Len(h.dbgs) + 1 ELSE 0,
             localizedMessage |-> x.localizedMessage,
             retryInfo |-> x.retryInfo,
             sourceID |-> x.sourceID,
             wrappedErr |-> x.wrappedErr]
    IN Ret([h EXCEPT
               !.errs = Append(@, clonedErr),
               !.maps = IF hasMeta THEN Append(@, h.maps[x.metadata]) ELSE @,
               !.carrs = IF hasCauses THEN Append(@, SliceElems(h.carrs, x.causes)) ELSE @,
               !.larrs = hc.larrs,
               !.helps = IF x.help # 0 THEN Append(@, [links |-> hc.links]) ELSE @,
               !.dbgs = IF x.debugInfo # 0
                        THEN Append(@, DebugInfoCopy(h.dbgs[x.debugInfo])) ELSE @],
           p)

(* Change option closures *)

\* WithChangeMetadata copying into the map the clone has, without make
WithChangeMetadataMerging(h, e, metadata) ==
    IF h.errs[e].metadata = 0
    THEN [h EXCEPT !.maps = Append(@, MapsCopy(EmptyMap, metadata)),
                   !.errs[e].metadata = Len(h.maps) + 1]
    ELSE [h EXCEPT !.maps[h.errs[e].metadata] = MapsCopy(@, metadata)]

WithChangeMetadata(h, e, metadata) ==
    [h EXCEPT !.maps = Append(@, MapsCopy(EmptyMap, metadata)),
              !.errs[e].metadata = Len(h.maps) + 1]

WithChangeMetadataValue(h, e, visibility, key, value) ==
    addMetadataValue(h, e, visibility, key, value)

WithChangeMetadataValuef(h, e, visibility, key, valueFormat, args) ==
    addMetadataValue(h, e, visibility, key, Sprintf(valueFormat, args))

WithChangeID(h, e, id) == [h EXCEPT !.errs[e].id = id]

WithChangeTime(h, e, timestamp) == [h EXCEPT !.errs[e].time = PtrTo(timestamp)]

WithChangeSourceID(h, e, sourceID) == [h EXCEPT !.errs[e].sourceID = sourceID]

WithChangeHelpLink(h, e, description, url) == addHelpLink(h, e, description, url)

WithChangeHelpLinkf(h, e, description, urlFormat, args) ==
    addHelpLink(h, e, description, Sprintf(urlFormat, args))

WithChangeRetryInfoDuration(h, e, retryOffset) ==
    [h EXCEPT !.errs[e].retryInfo =
        PtrTo([retryOffset |-> PtrTo(retryOffset), retryTime |-> NilPtr])]

\* WithChangeRetryTime, keeping a retry offset set before
WithChangeRetryTimeKeepingOffset(h, e, retryTime) ==
    [h EXCEPT !.errs[e].retryInfo =
        PtrTo([retryOffset |-> IF @ = NilPtr THEN NilPtr ELSE @[1].retryOffset,
               retryTime |-> PtrTo(retryTime)])]

WithChangeRetryTime(h, e, retryTime) ==
    [h EXCEPT !.errs[e].retryInfo =
        PtrTo([retryOffset |-> NilPtr, retryTime |-> PtrTo(retryTime)])]

WithChangeLocalizedMessage(h, e, locale, message) ==
    [h EXCEPT !.errs[e].localizedMessage = PtrTo([locale |-> locale, message |-> message])]

\* change(clonedErr)
ApplyChange(h, e, o) ==
    CASE o.k = "WithChangeMetadata" -> WithChangeMetadata(h, e, o.m)
      [] o.k = "WithChangeMetadataValue" -> WithChangeMetadataValue(h, e, o.n, o.s, o.t)
      [] o.k = "WithChangeMetadataValuef" ->
             WithChangeMetadataValuef(h, e, o.n, o.s, o.t, o.args)
      [] o.k = "WithChangeID" -> WithChangeID(h, e, o.s)
      [] o.k = "WithChangeTime" -> WithChangeTime(h, e, o.n)
      [] o.k = "WithChangeSourceID" -> WithChangeSourceID(h, e, o.s)
      [] o.k = "WithChangeHelpLink" -> WithChangeHelpLink(h, e, o.s, o.t)
      [] o.k = "WithChangeHelpLinkf" -> WithChangeHelpLinkf(h, e, o.s, o.t, o.args)
      [] o.k = "WithChangeRetryInfoDuration" -> WithChangeRetryInfoDuration(h, e, o.n)
      [] o.k = "WithChangeRetryTime" -> WithChangeRetryTime(h, e, o.n)
      [] o.k = "WithChangeLocalizedMessage" -> WithChangeLocalizedMessage(h, e, o.s, o.t)

RECURSIVE ApplyChanges(_, _, _)
ApplyChanges(h, e, changes) ==
    IF Len(changes) = 0 \/ h.panic THEN h
    ELSE ApplyChanges(ApplyChange(h, e, Head(changes)), e, Tail(changes))

\* TrogonError.WithChanges
WithChanges(h, e, changes) ==
    LET c == copy(h, e)
    IN Ret(ApplyChanges(c.h, c.p, changes), c.p)

-----------------------------------------------------------------------------
(* Templates *)

TemplateWithCode(h, t, code) == [h EXCEPT !.tmpls[t].code = code]

TemplateWithMessage(h, t, message) == [h EXCEPT !.tmpls[t].message = message]

TemplateWithVisibility(h, t, visibility) == [h EXCEPT !.tmpls[t].visibility = visibility]

\* t.help = &help, the closure's captured variable
TemplateWithHelp(h, t, help) == [h EXCEPT !.tmpls[t].help = help]

TemplateWithHelpLink(h, t, description, url) ==
    LET h1 == IF h.tmpls[t].help = 0
              THEN [h EXCEPT !.helps = Append(@, [links |-> NilSlice]),
                             !.tmpls[t].help = Len(h.helps) + 1]
              ELSE h
        hp == h1.tmpls[t].help
        r == AppendLinks(h1.larrs, h1.helps[hp].links, <<HelpLink(description, url)>>)
    IN [h1 EXCEPT !.larrs = r.arrs, !.helps[hp].links = r.s]

\* option(template)
ApplyTemplateOption(h, t, o) ==
    CASE o.k = "TemplateWithCode" -> TemplateWithCode(h, t, o.n)
      [] o.k = "TemplateWithMessage" -> TemplateWithMessage(h, t, o.s)
      [] o.k = "TemplateWithVisibility" -> TemplateWithVisibility(h, t, o.n)
      [] o.k = "TemplateWithHelp" -> TemplateWithHelp(h, t, o.c)
      [] o.k = "TemplateWithHelpLink" -> TemplateWithHelpLink(h, t, o.s, o.t)

RECURSIVE ApplyTemplateOptions(_, _, _)
ApplyTemplateOptions(h, t, options) ==
    IF Len(options) = 0 THEN h
    ELSE ApplyTemplateOptions(ApplyTemplateOption(h, t, Head(options)), t, Tail(options))

NewErrorTemplate(h, domain, reason, options) ==
    LET t == Len(h.tmpls) + 1
        template == [domain |-> domain,
                     reason |-> reason,
                     code |-> CodeUnknown,
                     message |-> "",
                     visibility |-> VisibilityInternal,
                     help |-> 0]
    IN Ret(ApplyTemplateOptions([h EXCEPT !.tmpls = Append(@, template)], t, options), t)

\* The call WithHelp(help): the argument is copied into the variable the
\* closure captures (the links header is copied, its backing array is not).
\* The result is the heap with that variable and the option value.
NewWithHelp(h, help) ==
    [h |-> [h EXCEPT !.helps = Append(@, help)],
     o |-> [Option("WithHelp") EXCEPT !.c = Len(h.helps) + 1]]

\* The call WithDebugInfo(debugInfo)
NewWithDebugInfo(h, debugInfo) ==
    [h |-> [h EXCEPT !.dbgs = Append(@, debugInfo)],
     o |-> [Option("WithDebugInfo") EXCEPT !.c = Len(h.dbgs) + 1]]

\* ErrorTemplate.NewError: the base options, built from the template (the
\* result is the heap with the variable WithHelp(*et.help) captured, and the
\* options)
BaseOptions(h, et) ==
    LET t == h.tmpls[et]
        wh == IF t.help # 0 THEN NewWithHelp(h, h.helps[t.help])
              ELSE [h |-> h, o |-> Option("none")]
    IN [h |-> wh.h,
        opts |-> <<[Option("WithCode") EXCEPT !.n = t.code],
                   [Option("WithVisibility") EXCEPT !.n = t.visibility]>>
                 \o (IF t.message # "" THEN <<[Option("WithMessage") EXCEPT !.s = t.message]>>
                     ELSE <<>>)
                 \o (IF t.help # 0 THEN <<wh.o>> ELSE <<>>)]

\* ErrorTemplate.NewError, passing the instance options before the base options
TemplateNewErrorBaseLast(h, et, options) ==
    LET t == h.tmpls[et]
        b == BaseOptions(h, et)
        r == NewError(Push(b.h, "github.com/TrogonStack/trogonerror.(*ErrorTemplate).NewError"),
                      t.domain, t.reason, options \o b.opts)
    IN Ret(Pop(r.h), r.p)

\* ErrorTemplate.NewError
TemplateNewError(h, et, options) ==
    LET t == h.tmpls[et]
        b == BaseOptions(h, et)
        r == NewError(Push(b.h, "github.com/TrogonStack/trogonerror.(*ErrorTemplate).NewError"),
                      t.domain, t.reason, b.opts \o options)
    IN Ret(Pop(r.h), r.p)

\* ErrorTemplate.Is, matching a target that wraps a matching TrogonError
RECURSIVE TemplateIsUnwrapping(_, _, _)
TemplateIsUnwrapping(h, et, target) ==
    CASE target.kind \in {"ptr", "val"} ->
             \/ /\ h.tmpls[et].domain = h.errs[target.ref].domain
                /\ h.tmpls[et].reason = h.errs[target.ref].reason
             \/ TemplateIsUnwrapping(h, et, h.errs[target.ref].wrappedErr)
      [] target.kind = "ext" -> TemplateIsUnwrapping(h, et, h.exts[target.ref].inner)
      [] OTHER -> FALSE

\* ErrorTemplate.Is
TemplateIs(h, et, target) ==
    CASE target.kind = "ptr" ->
             /\ h.tmpls[et].domain = h.errs[target.ref].domain
             /\ h.tmpls[et].reason = h.errs[target.ref].reason
      [] target.kind = "val" ->
             /\ h.tmpls[et].domain = h.errs[target.ref].domain
             /\ h.tmpls[et].reason = h.errs[target.ref].reason
      [] OTHER -> FALSE


-----------------------------------------------------------------------------
(* Errors of other packages *)

\* errors.New(msg)
ErrorsNew(h, msg) ==
    Ret([h EXCEPT !.exts = Append(@, [msg |-> msg, inner |-> NilErr])], Len(h.exts) + 1)

\* fmt.Errorf(prefix + "%w", inner), inner an error of another package
Errorf(h, prefix, inner) ==
    Ret([h EXCEPT !.exts = Append(@, [msg |-> prefix \o ErrorString(h, inner),
                                      inner |-> inner])],
        Len(h.exts) + 1)

-----------------------------------------------------------------------------
(* What the scenarios draw their inputs from *)

\* All sequences over A of length at most n
RECURSIVE Seqs(_, _)
Seqs(A, n) ==
    IF n = 0 THEN {<<>>}
    ELSE LET shorter == Seqs(A, n - 1)
         IN shorter \cup {Append(q, a) : q \in shorter, a \in A}

\* Domain and reason pairs: the same pair, another reason, another domain
Idents == {<<"d1", "r1">>, <<"d1", "r2">>, <<"d2", "r1">>}

SameIdent(h, a, b) ==
    h.errs[a].domain = h.errs[b].domain /\ h.errs[a].reason = h.errs[b].reason

NoCall == [op |-> "none", recv |-> 0, res |-> 0, opts |-> <<>>]
Call(op, recv, res, opts) == [op |-> op, recv |-> recv, res |-> res, opts |-> opts]

NoThreads == <<>>

Errs(h) == 1..Len(h.errs)


-----------------------------------------------------------------------------
(* Scenario SpecIs: a program builds errors that differ in identity and in   *)
(* their other fields, and compares them with Is.                            *)

MaxIsErrs == 2
MaxIsOpts == 1

IsOptions ==
    { [Option("WithCode") EXCEPT !.n = CodeNotFound],
      [Option("WithMessage") EXCEPT !.s = "m"],
      [Option("WithMetadataValue") EXCEPT !.n = VisibilityPublic, !.s = "orderId", !.t = "1"],
      [Option("WithTime") EXCEPT !.n = 1],
      [Option("WithID") EXCEPT !.s = "id-1"] }

IsInit == heap = EmptyHeap /\ last = NoCall /\ thr = NoThreads

IsNewError ==
    /\ Len(heap.errs) < MaxIsErrs
    /\ \E id \in Idents, opts \in Seqs(IsOptions, MaxIsOpts) :
          LET r == NewError(heap, id[1], id[2], opts)
          IN heap' = r.h /\ last' = Call("NewError", 0, r.p, opts)
    /\ UNCHANGED thr

IsNext == IsNewError

SpecIs == IsInit /\ [][IsNext]_vars

\* C1: a.Is(b), b a pointer or a value, is true exactly when a and b have the
\* same domain and the same reason, whatever their other fields.
IsByDomainAndReason ==
    \A a \in Errs(heap), b \in Errs(heap) :
        /\ Is(heap, a, PtrErr(b)) <=> SameIdent(heap, a, b)
        /\ Is(heap, a, ValErr(b)) <=> SameIdent(heap, a, b)

\* Two errors of one identity that differ in another field
IsWitness ==
    \E a \in Errs(heap), b \in Errs(heap) :
        /\ SameIdent(heap, a, b)
        /\ Message(heap, a) # Message(heap, b)
        /\ Is(heap, a, PtrErr(b)) /\ Is(heap, a, ValErr(b))

-----------------------------------------------------------------------------
(* Scenario Spec: a program wraps errors in TrogonErrors, to any depth, and   *)
(* runs the chain check.                                                     *)

MaxChainErrs == 3
MaxChainOpts == 1

\* errors of other packages the program holds: a plain error, an error
\* wrapping it, and an unrelated plain error
ChainExts ==
    LET a == ErrorsNew(EmptyHeap, "boom")
        b == Errorf(a.h, "wrapped: ", ExtErr(a.p))
        c == ErrorsNew(b.h, "other")
    IN c.h

ChainOptions(h) ==
    { [Option("WithWrap") EXCEPT !.err = ExtErr(2)] }
    \cup { [Option("WithWrap") EXCEPT !.err = PtrErr(p)] : p \in Errs(h) }

Init == heap = ChainExts /\ last = NoCall /\ thr = NoThreads

ChainNewError ==
    /\ Len(heap.errs) < MaxChainErrs
    /\ \E id \in Idents, opts \in Seqs(ChainOptions(heap), MaxChainOpts) :
          LET r == NewError(heap, id[1], id[2], opts)
          IN heap' = r.h /\ last' = Call("NewError", 0, r.p, opts)
    /\ UNCHANGED thr

Next == ChainNewError

Spec == Init /\ [][Next]_vars

\* The layers of an error's unwrap chain, outermost first, by following the
\* wrapped field (the inner field for an error of another package)
RECURSIVE Chain(_, _)
Chain(h, err) ==
    IF err.kind = "nil" THEN <<>>
    ELSE <<err>> \o Chain(h, IF err.kind = "ext" THEN h.exts[err.ref].inner
                             ELSE h.errs[err.ref].wrappedErr)

InChain(h, err, t) == \E i \in 1..Len(Chain(h, err)) : Chain(h, err)[i] = t

\* Some TrogonError layer of err's chain has the domain and reason of q
IdentInChain(h, err, q) ==
    \E i \in 1..Len(Chain(h, err)) :
        /\ Chain(h, err)[i].kind \in {"ptr", "val"}
        /\ SameIdent(h, Chain(h, err)[i].ref, q)

Exts(h) == {ExtErr(x) : x \in 1..Len(h.exts)}

\* C8: for a target that is no TrogonError (an error of another package, or
\* the nil error), e.Is(t) is true exactly when t is in the unwrap chain of the
\* error e wraps, and false when e wraps nothing.
IsDelegatesToWrapped ==
    \A e \in Errs(heap), t \in Exts(heap) \cup {NilErr} :
        /\ Is(heap, e, t) <=> InChain(heap, heap.errs[e].wrappedErr, t)
        /\ heap.errs[e].wrappedErr.kind = "nil" => ~Is(heap, e, t)

\* C9: the chain check of a TrogonError against a TrogonError target is true
\* exactly when some layer of the chain has the target's domain and reason,
\* at any nesting depth, and it finds an error of another package at the bottom.
ChainCheckByIdentity ==
    \A p \in Errs(heap) :
        /\ \A q \in Errs(heap) :
              /\ ErrorsIs(heap, PtrErr(p), PtrErr(q)) <=> IdentInChain(heap, PtrErr(p), q)
              /\ ErrorsIs(heap, PtrErr(p), ValErr(q)) <=> IdentInChain(heap, PtrErr(p), q)
        /\ \A t \in Exts(heap) :
              ErrorsIs(heap, PtrErr(p), t) <=> InChain(heap, PtrErr(p), t)

\* Three TrogonErrors nested by WithWrap over an error of another package; the
\* target's identity is that of the innermost one only
ChainCheckWitness ==
    \E p \in Errs(heap), q \in Errs(heap), r \in Errs(heap) :
        /\ heap.errs[p].wrappedErr = PtrErr(q)
        /\ heap.errs[q].wrappedErr = PtrErr(r)
        /\ heap.errs[r].wrappedErr = ExtErr(2)
        /\ ~SameIdent(heap, p, r) /\ ~SameIdent(heap, q, r)
        /\ ErrorsIs(heap, PtrErr(p), ValErr(r))
        /\ ErrorsIs(heap, PtrErr(p), ExtErr(1))

-----------------------------------------------------------------------------
(* Scenario SpecCauses: a program builds errors with WithWrap and WithCause  *)
(* options together.                                                         *)

MaxCauseErrs == 2
MaxCauseOpts == 2

CauseOptions(h) ==
    ChainOptions(h) \cup { [Option("WithCause") EXCEPT !.ps = <<p>>] : p \in Errs(h) }

CauseNewError ==
    /\ Len(heap.errs) < MaxCauseErrs
    /\ \E id \in Idents, opts \in Seqs(CauseOptions(heap), MaxCauseOpts) :
          LET r == NewError(heap, id[1], id[2], opts)
          IN heap' = r.h /\ last' = Call("NewError", 0, r.p, opts)
    /\ UNCHANGED thr

CauseNext == CauseNewError

SpecCauses == Init /\ [][CauseNext]_vars

\* The error of the last WithWrap option of a list, nil when there is none
RECURSIVE LastWrap(_)
LastWrap(opts) ==
    IF Len(opts) = 0 THEN NilErr
    ELSE IF opts[Len(opts)].k = "WithWrap" THEN opts[Len(opts)].err
    ELSE LastWrap(SubSeq(opts, 1, Len(opts) - 1))

\* The causes named by the WithCause options of a list, in order
RECURSIVE AllCauses(_)
AllCauses(opts) ==
    IF Len(opts) = 0 THEN <<>>
    ELSE (IF Head(opts).k = "WithCause" THEN Head(opts).ps ELSE <<>>) \o AllCauses(Tail(opts))

\* C10 (under SpecCauses): Unwrap returns the error of the last WithWrap option and nothing else;
\* WithCause does not change it and does not make the chain check match a cause
\* of another identity; WithWrap adds nothing to Causes().
CausesApartFromWrapped ==
    last.op = "NewError" =>
        /\ Unwrap(heap, last.res) = LastWrap(last.opts)
        /\ Causes(heap, last.res) = AllCauses(last.opts)
        /\ \A i \in 1..Len(Causes(heap, last.res)) :
              LET c == Causes(heap, last.res)[i]
              IN ErrorsIs(heap, PtrErr(last.res), PtrErr(c))
                     => IdentInChain(heap, PtrErr(last.res), c)

\* An error built with a WithWrap and a WithCause whose cause has another
\* identity than every layer of the chain
CausesWitness ==
    /\ last.op = "NewError"
    /\ \E i \in 1..Len(last.opts), j \in 1..Len(last.opts) :
          /\ last.opts[i].k = "WithWrap" /\ last.opts[j].k = "WithCause" /\ i < j
    /\ Len(Causes(heap, last.res)) = 1
    /\ Unwrap(heap, last.res).kind = "ext"
    /\ ~ErrorsIs(heap, PtrErr(last.res), PtrErr(Causes(heap, last.res)[1]))

-----------------------------------------------------------------------------
(* Scenario SpecCow: a program builds an error, plain or with every field    *)
(* set, and derives further errors from it and from its derivations with     *)
(* WithChanges.                                                              *)

MaxCowErrs == 4
MaxCowChanges == 1

\* The program holds one error to name as a cause
CowHeap == NewError(EmptyHeap, "d2", "r2", <<>>).h

\* An error with every field set; three help links leave its links slice with
\* spare capacity
RichOptions ==
    << [Option("WithCode") EXCEPT !.n = CodeNotFound],
       [Option("WithMessage") EXCEPT !.s = "m"],
       [Option("WithMetadataValue") EXCEPT !.n = VisibilityPublic, !.s = "orderId", !.t = "1"],
       [Option("WithHelpLink") EXCEPT !.s = "docs", !.t = "u1"],
       [Option("WithHelpLink") EXCEPT !.s = "faq", !.t = "u2"],
       [Option("WithHelpLink") EXCEPT !.s = "chat", !.t = "u3"],
       [Option("WithDebugDetail") EXCEPT !.s = "detail"],
       [Option("WithStackTraceDepth") EXCEPT !.n = 2],
       [Option("WithID") EXCEPT !.s = "id-1"],
       [Option("WithTime") EXCEPT !.n = 1],
       [Option("WithSourceID") EXCEPT !.s = "src-1"],
       [Option("WithRetryInfoDuration") EXCEPT !.n = 30],
       [Option("WithLocalizedMessage") EXCEPT !.s = "es-ES", !.t = "hola"],
       [Option("WithCause") EXCEPT !.ps = <<1>>],
       [Option("WithSubject") EXCEPT !.s = "/s"],
       [Option("WithWrap") EXCEPT !.err = PtrErr(1)] >>

CowProfiles == {<<>>, RichOptions}

CowChanges ==
    { [Option("WithChangeMetadataValue") EXCEPT
          !.n = VisibilityPrivate, !.s = "customerId", !.t = "2"],
      [Option("WithChangeMetadata") EXCEPT
          !.m = [k \in {"productType"} |-> MetadataValue("3", VisibilityInternal)]],
      [Option("WithChangeHelpLink") EXCEPT !.s = "status", !.t = "u4"],
      [Option("WithChangeID") EXCEPT !.s = "id-2"],
      [Option("WithChangeTime") EXCEPT !.n = 2],
      [Option("WithChangeSourceID") EXCEPT !.s = "src-2"],
      [Option("WithChangeRetryTime") EXCEPT !.n = 7],
      [Option("WithChangeLocalizedMessage") EXCEPT !.s = "fr-FR", !.t = "salut"] }

CowInit == heap = CowHeap /\ last = NoCall /\ thr = NoThreads

CowNewError ==
    /\ Len(heap.errs) = 1
    /\ \E opts \in CowProfiles :
          LET r == NewError(heap, "d1", "r1", opts)
          IN heap' = r.h /\ last' = Call("NewError", 0, r.p, opts)
    /\ UNCHANGED thr

CowWithChanges ==
    /\ Len(heap.errs) > 1
    /\ Len(heap.errs) < MaxCowErrs
    /\ \E e \in Errs(heap) \ {1}, changes \in Seqs(CowChanges, MaxCowChanges) :
          LET r == WithChanges(heap, e, changes)
          IN heap' = r.h /\ last' = Call("WithChanges", e, r.p, changes)
    /\ UNCHANGED thr

CowNext == CowNewError \/ CowWithChanges

SpecCow == CowInit /\ [][CowNext]_vars

\* Everything an error's accessors and its rendering can show: the fields,
\* with the map, the slices and the structs they point to read through
View(h, e) ==
    LET x == h.errs[e] IN
    [specVersion |-> x.specVersion, code |-> x.code, message |-> x.message,
     domain |-> x.domain, reason |-> x.reason, visibility |-> x.visibility,
     subject |-> x.subject, id |-> x.id, time |-> x.time, sourceID |-> x.sourceID,
     localizedMessage |-> x.localizedMessage, retryInfo |-> x.retryInfo,
     wrappedErr |-> x.wrappedErr,
     metadataNil |-> x.metadata = 0, metadata |-> Metadata(h, e),
     causesNil |-> x.causes.arr = 0, causes |-> Causes(h, e),
     helpNil |-> x.help = 0, links |-> Links(h, e),
     debugInfo |-> IF x.debugInfo = 0 THEN <<>> ELSE <<h.dbgs[x.debugInfo]>>]

\* Two errors share a cell that an option or a change option writes
SharesCell(h, a, b) ==
    LET x == h.errs[a] y == h.errs[b] IN
    \/ x.metadata # 0 /\ x.metadata = y.metadata
    \/ x.help # 0 /\ x.help = y.help
    \/ /\ x.help # 0 /\ y.help # 0
       /\ h.helps[x.help].links.arr # 0
       /\ h.helps[x.help].links.arr = h.helps[y.help].links.arr
    \/ x.debugInfo # 0 /\ x.debugInfo = y.debugInfo
    \/ x.causes.arr # 0 /\ x.causes.arr = y.causes.arr

\* C2: r = e.WithChanges(c...) is a new value sharing no writable cell with e,
\* and no WithChanges call, on e or on any derivation, changes what an error
\* that existed before the call shows.
WithChangesLeavesReceiver ==
    /\ [](last.op = "WithChanges" =>
             /\ last.res # last.recv
             /\ ~SharesCell(heap, last.res, last.recv))
    /\ [][last'.op = "WithChanges" =>
             /\ last'.res \notin Errs(heap)
             /\ \A e \in Errs(heap) : View(heap', e) = View(heap, e)]_vars

\* A metadata key is added to a derivation of an error that has help links,
\* metadata, debug info and causes, and a help link to a derivation of that
\* derivation
WithChangesWitness ==
    /\ last.op = "WithChanges"
    /\ last.recv = 3 /\ last.res = 4
    /\ Len(Links(heap, 2)) = 3 /\ DOMAIN Metadata(heap, 2) = {"orderId"}
    /\ heap.errs[2].debugInfo # 0 /\ Len(Causes(heap, 2)) = 1
    /\ DOMAIN Metadata(heap, 3) = {"orderId", "customerId"}
    /\ Len(Links(heap, 3)) = 3
    /\ Len(Links(heap, 4)) = 4

-----------------------------------------------------------------------------
(* Scenario SpecRetry: a program builds an error with any sequence of retry  *)
(* options and derives errors from it with any sequence of retry and other   *)
(* change options.                                                           *)

MaxRetryErrs == 3
MaxRetryOpts == 2

RetryOptions ==
    { [Option("WithRetryInfoDuration") EXCEPT !.n = 30],
      [Option("WithRetryTime") EXCEPT !.n = 5] }

RetryChanges ==
    { [Option("WithChangeRetryInfoDuration") EXCEPT !.n = 60],
      [Option("WithChangeRetryTime") EXCEPT !.n = 7],
      [Option("WithChangeID") EXCEPT !.s = "id-2"],
      [Option("WithChangeTime") EXCEPT !.n = 2] }

RetryInit == heap = EmptyHeap /\ last = NoCall /\ thr = NoThreads

RetryNewError ==
    /\ Len(heap.errs) = 0
    /\ \E opts \in Seqs(RetryOptions, MaxRetryOpts) :
          LET r == NewError(heap, "d1", "r1", opts)
          IN heap' = r.h /\ last' = Call("NewError", 0, r.p, opts)
    /\ UNCHANGED thr

RetryWithChanges ==
    /\ Len(heap.errs) > 0
    /\ Len(heap.errs) < MaxRetryErrs
    /\ \E e \in Errs(heap), changes \in Seqs(RetryChanges, MaxRetryOpts) :
          LET r == WithChanges(heap, e, changes)
          IN heap' = r.h /\ last' = Call("WithChanges", e, r.p, changes)
    /\ UNCHANGED thr

RetryNext == RetryNewError \/ RetryWithChanges

SpecRetry == RetryInit /\ [][RetryNext]_vars

IsOffsetOption(o) == o.k \in {"WithRetryInfoDuration", "WithChangeRetryInfoDuration"}
IsTimeOption(o) == o.k \in {"WithRetryTime", "WithChangeRetryTime"}
IsRetryOption(o) == IsOffsetOption(o) \/ IsTimeOption(o)

\* The variant of retry info an error holds: "none" without retry info,
\* "offset" or "time" with exactly that one set, "both" or "neither" otherwise
RetryVariant(h, e) ==
    LET ri == h.errs[e].retryInfo IN
    IF ri = NilPtr THEN "none"
    ELSE CASE ri[1].retryOffset # NilPtr /\ ri[1].retryTime = NilPtr -> "offset"
           [] ri[1].retryOffset = NilPtr /\ ri[1].retryTime # NilPtr -> "time"
           [] ri[1].retryOffset # NilPtr /\ ri[1].retryTime # NilPtr -> "both"
           [] OTHER -> "neither"

\* The last retry option of a list, 0 when it has none
LastRetryOption(opts) ==
    LET I == {i \in 1..Len(opts) : IsRetryOption(opts[i])}
    IN IF I = {} THEN 0 ELSE CHOOSE i \in I : \A j \in I : j <= i

\* C3: retry info is absent or holds exactly one of retryOffset and retryTime,
\* and the one it holds, with its value, is the one set by the last retry
\* option applied: the last of the call's options, or what the receiver of
\* WithChanges held when the call had no retry option.
RetryInfoExclusive ==
    /\ \A e \in Errs(heap) : RetryVariant(heap, e) \in {"none", "offset", "time"}
    /\ last.op \in {"NewError", "WithChanges"} =>
          LET i == LastRetryOption(last.opts)
              ri == heap.errs[last.res].retryInfo
          IN IF i = 0
             THEN ri = IF last.op = "NewError" THEN NilPtr
                       ELSE heap.errs[last.recv].retryInfo
             ELSE /\ RetryVariant(heap, last.res) =
                        IF IsOffsetOption(last.opts[i]) THEN "offset" ELSE "time"
                  /\ IsOffsetOption(last.opts[i]) => ri[1].retryOffset = PtrTo(last.opts[i].n)
                  /\ IsTimeOption(last.opts[i]) => ri[1].retryTime = PtrTo(last.opts[i].n)

\* An error built with a retry offset then a retry time, and a derivation
\* given a retry time then a retry offset
RetryInfoWitness ==
    /\ last.op = "WithChanges"
    /\ RetryVariant(heap, last.recv) = "time"
    /\ Len(last.opts) = 2
    /\ IsTimeOption(last.opts[1]) /\ IsOffsetOption(last.opts[2])
    /\ RetryVariant(heap, last.res) = "offset"


-----------------------------------------------------------------------------
(* Scenario SpecTmpl: a program defines a template and creates errors from   *)
(* it with instance options.  It holds one option value helpOption =         *)
(* WithHelp(Help{}) that it may pass to any call.                            *)

MaxTmplOpts == 2
MaxTmplErrs == 1
MaxInstOpts == 2

\* helpOption := WithHelp(Help{})
TmplHeap == NewWithHelp(EmptyHeap, [links |-> NilSlice]).h
HelpOption == NewWithHelp(EmptyHeap, [links |-> NilSlice]).o

TemplateIdents == {<<"d1", "r1">>, <<"d2", "r2">>}

TemplateOptions ==
    { [Option("TemplateWithCode") EXCEPT !.n = CodeNotFound],
      [Option("TemplateWithMessage") EXCEPT !.s = "tm"],
      [Option("TemplateWithVisibility") EXCEPT !.n = VisibilityPublic],
      [Option("TemplateWithHelpLink") EXCEPT !.s = "docs", !.t = "u1"] }

InstanceOptions ==
    { [Option("WithCode") EXCEPT !.n = CodeAlreadyExists],
      [Option("WithMessage") EXCEPT !.s = "im"],
      [Option("WithVisibility") EXCEPT !.n = VisibilityPrivate],
      [Option("WithHelpLink") EXCEPT !.s = "status", !.t = "u4"],
      HelpOption }

TmplInit == heap = TmplHeap /\ last = NoCall /\ thr = NoThreads

TmplNewErrorTemplate ==
    /\ Len(heap.tmpls) = 0
    /\ \E id \in TemplateIdents, opts \in Seqs(TemplateOptions, MaxTmplOpts) :
          LET r == NewErrorTemplate(heap, id[1], id[2], opts)
          IN heap' = r.h /\ last' = Call("NewErrorTemplate", 0, r.p, opts)
    /\ UNCHANGED thr

TmplNewError ==
    /\ Len(heap.tmpls) > 0
    /\ Len(heap.errs) < MaxTmplErrs
    /\ \E opts \in Seqs(InstanceOptions, MaxInstOpts) :
          LET r == TemplateNewError(heap, 1, opts)
          IN heap' = r.h /\ last' = Call("TemplateNewError", 1, r.p, opts)
    /\ UNCHANGED thr

TmplNext == TmplNewErrorTemplate \/ TmplNewError

SpecTmpl == TmplInit /\ [][TmplNext]_vars

\* The help links of a template
TemplateLinks(h, et) ==
    IF h.tmpls[et].help = 0 THEN <<>>
    ELSE SliceElems(h.larrs, h.helps[h.tmpls[et].help].links)

HasOption(opts, k) == \E i \in 1..Len(opts) : opts[i].k = k

\* The last option of kind k in a list, 0 when it has none
LastOption(opts, k) ==
    LET I == {i \in 1..Len(opts) : opts[i].k = k}
    IN IF I = {} THEN 0 ELSE CHOOSE i \in I : \A j \in I : j <= i

\* The links that the WithHelpLink options of a list give, in their order
RECURSIVE LinksGiven(_)
LinksGiven(opts) ==
    IF Len(opts) = 0 THEN <<>>
    ELSE (IF Head(opts).k = "WithHelpLink"
          THEN <<HelpLink(Head(opts).s, Head(opts).t)>> ELSE <<>>)
         \o LinksGiven(Tail(opts))

\* Domain, reason, code, message and visibility of the error that the last
\* call, T.NewError(opts...), returned: the template's values, each replaced
\* by the value of the last instance option for the field
InstanceScalars ==
    LET t == heap.tmpls[last.recv]
        e == heap.errs[last.res]
        c == LastOption(last.opts, "WithCode")
        m == LastOption(last.opts, "WithMessage")
        v == LastOption(last.opts, "WithVisibility")
    IN /\ e.domain = t.domain /\ e.reason = t.reason
       /\ e.code = IF c = 0 THEN t.code ELSE last.opts[c].n
       /\ e.message = IF m = 0 THEN t.message ELSE last.opts[m].s
       /\ e.visibility = IF v = 0 THEN t.visibility ELSE last.opts[v].n

\* The help links of that error are the template's followed by the instance's
InstanceLinks ==
    Links(heap, last.res) = TemplateLinks(heap, last.recv) \o LinksGiven(last.opts)

\* C4 as stated: for every list of instance options, T.NewError(opts...) has
\* T's domain and reason, the last instance value or T's default for code,
\* message and visibility, and T's help links followed by the instance links.
InstanceOverTemplateAnyOptions ==
    last.op = "TemplateNewError" => InstanceScalars /\ InstanceLinks

\* C4, amended: T.NewError(opts...) has T's domain and reason and the last
\* instance value or T's default for code, message and visibility, for every
\* list of instance options; its help links are T's followed by the instance
\* links when no instance option is WithHelp.
InstanceOverTemplate ==
    last.op = "TemplateNewError" =>
        /\ InstanceScalars
        /\ ~HasOption(last.opts, "WithHelp") => InstanceLinks

\* A template with a code, a help link and a message yields an error whose
\* instance options replace the code and add a help link
InstanceOverTemplateWitness ==
    /\ last.op = "TemplateNewError"
    /\ heap.tmpls[1].code = CodeNotFound
    /\ Len(TemplateLinks(heap, 1)) = 1
    /\ HasOption(last.opts, "WithCode") /\ HasOption(last.opts, "WithHelpLink")
    /\ heap.errs[last.res].code = CodeAlreadyExists
    /\ Len(Links(heap, last.res)) = 2


-----------------------------------------------------------------------------
(* Goroutines.  A goroutine runs one call, T.NewError(opts...) or            *)
(* e.WithChanges(opts...), a step at a time: the part of the call before the *)
(* loop over the options, then one option per step.  An append that writes   *)
(* into an array in place stores the link's description and its url in two   *)
(* steps: when two goroutines store into one cell without synchronisation,   *)
(* the cell may end with the description of one and the url of the other.    *)
(* A panic in a goroutine is not recovered: it ends the program.             *)

Goroutines == {"g1", "g2"}

Idle == [op |-> "none", recv |-> 0, opts |-> <<>>, pc |-> "idle", todo |-> <<>>,
         res |-> 0, half |-> FALSE, stack |-> <<>>]

\* The call stack of a goroutine started by go func() { ... }() in main.caller
GoStack == <<Frame("main.caller.func1"), Frame("runtime.goexit")>>

\* The call up to its loop over the options: the error the options will
\* write, the options to run, and the goroutine's call stack during the loop
\* (the loop of T.NewError runs inside NewError, called by T.NewError)
GoBegin(h, op, recv, opts) ==
    IF op = "WithChanges"
    THEN LET c == copy(h, recv)
         IN [h |-> c.h, res |-> c.p, todo |-> opts,
             stack |-> <<Frame("github.com/TrogonStack/trogonerror.(*TrogonError).WithChanges")>>
                       \o GoStack]
    ELSE LET b == BaseOptions(h, recv)
             r == NewError(b.h, h.tmpls[recv].domain, h.tmpls[recv].reason, <<>>)
         IN [h |-> r.h, res |-> r.p, todo |-> b.opts \o opts,
             stack |-> <<Frame("github.com/TrogonStack/trogonerror.NewError"),
                         Frame("github.com/TrogonStack/trogonerror.(*ErrorTemplate).NewError")>>
                       \o GoStack]

\* go func() { ... }(): the goroutine starts its call
Go(g, op, recv, opts) ==
    /\ ~heap.panic
    /\ thr[g].pc = "idle"
    /\ LET b == GoBegin(heap, op, recv, opts)
       IN /\ heap' = b.h
          /\ thr' = [thr EXCEPT ![g] =
                        [op |-> op, recv |-> recv, opts |-> opts,
                         pc |-> IF Len(b.todo) = 0 THEN "done" ELSE "run",
                         todo |-> b.todo, res |-> b.res, half |-> FALSE,
                         stack |-> IF Len(b.todo) = 0 THEN <<>> ELSE b.stack]]
    /\ UNCHANGED last

\* The next option appends a help link where the links slice has spare capacity
StoresInPlace(h, t) ==
    /\ t.pc = "run"
    /\ Head(t.todo).k \in {"WithHelpLink", "WithHelpLinkf",
                            "WithChangeHelpLink", "WithChangeHelpLinkf"}
    /\ h.errs[t.res].help # 0
    /\ h.helps[h.errs[t.res].help].links.len < h.helps[h.errs[t.res].help].links.cap

\* The goroutine goes to its next option, or returns
Advance(t) ==
    [t EXCEPT !.todo = Tail(@), !.half = FALSE,
              !.pc = IF Len(t.todo) = 1 THEN "done" ELSE "run",
              !.stack = IF Len(t.todo) = 1 THEN <<>> ELSE @]

\* option(err), for an option that is no append in place; the option runs on
\* the goroutine's call stack
GoApply(g) ==
    /\ ~heap.panic
    /\ thr[g].pc = "run"
    /\ ~StoresInPlace(heap, thr[g])
    /\ LET h0 == [heap EXCEPT !.stack = thr[g].stack]
           h1 == IF thr[g].op = "WithChanges"
                 THEN ApplyChange(h0, thr[g].res, Head(thr[g].todo))
                 ELSE ApplyOption(h0, thr[g].res, Head(thr[g].todo))
       IN heap' = [h1 EXCEPT !.stack = heap.stack]
    /\ thr' = [thr EXCEPT ![g] = Advance(@)]
    /\ UNCHANGED last

\* append in place, first store: the description of the link
GoStoreDescription(g) ==
    /\ ~heap.panic
    /\ StoresInPlace(heap, thr[g])
    /\ ~thr[g].half
    /\ LET links == heap.helps[heap.errs[thr[g].res].help].links
       IN heap' = [heap EXCEPT !.larrs[links.arr][links.len + 1].description =
                                   Head(thr[g].todo).s]
    /\ thr' = [thr EXCEPT ![g].half = TRUE]
    /\ UNCHANGED last

\* append in place, second store: the url of the link; then the new header
GoStoreURL(g) ==
    /\ ~heap.panic
    /\ StoresInPlace(heap, thr[g])
    /\ thr[g].half
    /\ LET hp == heap.errs[thr[g].res].help
           links == heap.helps[hp].links
           o == Head(thr[g].todo)
           url == IF o.k \in {"WithHelpLinkf", "WithChangeHelpLinkf"}
                  THEN Sprintf(o.t, o.args) ELSE o.t
       IN heap' = [heap EXCEPT !.larrs[links.arr][links.len + 1].url = url,
                               !.helps[hp].links.len = @ + 1]
    /\ thr' = [thr EXCEPT ![g] = Advance(@)]
    /\ UNCHANGED last

\* What the call of a goroutine returns when it runs alone, from this state
AloneView(t) ==
    LET h0 == [heap EXCEPT !.stack = GoStack]
        r == IF t.op = "WithChanges" THEN WithChanges(h0, t.recv, t.opts)
             ELSE TemplateNewError(h0, t.recv, t.opts)
    IN View(r.h, r.p)

-----------------------------------------------------------------------------
(* Scenario SpecConcT: two goroutines create errors from one shared          *)
(* template, each with its own instance options.                             *)

MaxConcLinks == 3
MaxConcOpts == 1

\* The template's links: link1, link2, ...
TemplateLinkOptions(n) ==
    [i \in 1..n |-> [Option("TemplateWithHelpLink") EXCEPT
                        !.s = "link" \o ToString(i), !.t = "u" \o ToString(i)]]

ConcInstanceOptions ==
    { [Option("WithMetadataValue") EXCEPT !.n = VisibilityPublic, !.s = "orderId", !.t = "1"],
      [Option("WithTime") EXCEPT !.n = 1],
      [Option("WithHelpLink") EXCEPT !.s = "a", !.t = "ua"],
      [Option("WithHelpLink") EXCEPT !.s = "b", !.t = "ub"],
      [Option("WithStackTraceDepth") EXCEPT !.n = 3] }

ConcInit == heap = EmptyHeap /\ last = NoCall /\ thr = [g \in Goroutines |-> Idle]

ConcNewErrorTemplate ==
    /\ Len(heap.tmpls) = 0
    /\ \E n \in 0..MaxConcLinks :
          LET opts == <<[Option("TemplateWithCode") EXCEPT !.n = CodeNotFound]>>
                      \o TemplateLinkOptions(n)
              r == NewErrorTemplate(heap, "d1", "r1", opts)
          IN heap' = r.h /\ last' = Call("NewErrorTemplate", 0, r.p, opts)
    /\ UNCHANGED thr

ConcGo ==
    /\ Len(heap.tmpls) > 0
    /\ \E g \in Goroutines, opts \in Seqs(ConcInstanceOptions, MaxConcOpts) :
          Go(g, "TemplateNewError", 1, opts)

ConcApply == \E g \in Goroutines : GoApply(g)

ConcStoreDescription == \E g \in Goroutines : GoStoreDescription(g)

ConcStoreURL == \E g \in Goroutines : GoStoreURL(g)

ConcNext ==
    \/ ConcNewErrorTemplate
    \/ ConcGo
    \/ ConcApply
    \/ ConcStoreDescription
    \/ ConcStoreURL

SpecConcT == ConcInit /\ [][ConcNext]_vars

\* C5: every concurrent T.NewError call returns an error equal to the one the
\* same call returns when run alone, it stays so whatever the other calls do,
\* and T keeps the links it was built with.
ConcurrentNewErrorAsAlone ==
    Len(heap.tmpls) > 0 =>
        /\ TemplateLinks(heap, 1) =
               LET r == NewErrorTemplate(EmptyHeap, "d1", "r1", last.opts)
               IN TemplateLinks(r.h, r.p)
        /\ \A g \in Goroutines :
               thr[g].pc = "done" => View(heap, thr[g].res) = AloneView(thr[g])

-----------------------------------------------------------------------------
(* Scenario SpecConcW: two goroutines derive errors from one shared error    *)
(* with WithChanges.                                                         *)

MaxConcChanges == 2

ConcChanges ==
    { [Option("WithChangeMetadataValue") EXCEPT
          !.n = VisibilityPrivate, !.s = "customerId", !.t = "2"],
      [Option("WithChangeHelpLink") EXCEPT !.s = "status", !.t = "u4"],
      [Option("WithChangeTime") EXCEPT !.n = 2] }

ConcWInit == heap = CowHeap /\ last = NoCall /\ thr = [g \in Goroutines |-> Idle]

ConcWNewError ==
    /\ Len(heap.errs) = 1
    /\ \E opts \in CowProfiles :
          LET r == NewError(heap, "d1", "r1", opts)
          IN heap' = r.h /\ last' = Call("NewError", 0, r.p, opts)
    /\ UNCHANGED thr

ConcWGo ==
    /\ Len(heap.errs) > 1
    /\ \E g \in Goroutines, changes \in Seqs(ConcChanges, MaxConcChanges) :
          Go(g, "WithChanges", 2, changes)

ConcWNext ==
    \/ ConcWNewError
    \/ ConcWGo
    \/ ConcApply
    \/ ConcStoreDescription
    \/ ConcStoreURL

SpecConcW == ConcWInit /\ [][ConcWNext]_vars

\* C6: in every interleaving, every concurrent e.WithChanges call returns what
\* the same call returns when run alone, and e shows what it showed when it was
\* built, during and after the calls.
ConcurrentWithChangesAsAlone ==
    last.op = "NewError" =>
        /\ View(heap, 2) =
               LET r == NewError(CowHeap, "d1", "r1", last.opts) IN View(r.h, r.p)
        /\ \A g \in Goroutines :
               thr[g].pc = "done" => View(heap, thr[g].res) = AloneView(thr[g])

\* Both goroutines have returned, each having added a metadata key and a help
\* link to its copy of an error that has metadata and three help links
ConcurrentWithChangesWitness ==
    /\ \A g \in Goroutines :
          /\ thr[g].pc = "done"
          /\ Len(thr[g].opts) = 2
          /\ Len(Links(heap, thr[g].res)) = 4
          /\ DOMAIN Metadata(heap, thr[g].res) = {"orderId", "customerId"}
    /\ thr["g1"].res # thr["g2"].res
    /\ Len(Links(heap, 2)) = 3


-----------------------------------------------------------------------------
(* Scenario SpecTotal: a program passes options with degenerate arguments    *)
(* to NewError, to a template's NewError and to WithChanges.  It holds the   *)
(* option values WithHelp(Help{}) and WithDebugInfo(DebugInfo{}).  A panic   *)
(* ends the program.                                                         *)

MaxTotalErrs == 2
MaxTotalOpts == 1

TotalHeap ==
    NewWithDebugInfo(NewWithHelp(EmptyHeap, [links |-> NilSlice]).h,
                     [stackFrames |-> <<>>, detail |-> ""]).h

DebugOption ==
    NewWithDebugInfo(NewWithHelp(EmptyHeap, [links |-> NilSlice]).h,
                     [stackFrames |-> <<>>, detail |-> ""]).o

\* Empty strings, nil maps, nil errors (the nil interface and a nil
\* *TrogonError), no or nil causes, zero and negative
\* depths, empty Help and DebugInfo
TotalOptions ==
    { [Option("WithMessage") EXCEPT !.s = ""],
      [Option("WithSubject") EXCEPT !.s = ""],
      [Option("WithID") EXCEPT !.s = ""],
      [Option("WithMetadata") EXCEPT !.m = EmptyMap],
      [Option("WithMetadataValue") EXCEPT !.n = VisibilityInternal, !.s = "", !.t = ""],
      [Option("WithHelpLink") EXCEPT !.s = "", !.t = ""],
      HelpOption,
      DebugOption,
      [Option("WithDebugDetail") EXCEPT !.s = ""],
      [Option("WithStackTraceDepth") EXCEPT !.n = 0],
      [Option("WithStackTraceDepth") EXCEPT !.n = -1],
      [Option("WithLocalizedMessage") EXCEPT !.s = "", !.t = ""],
      [Option("WithRetryInfoDuration") EXCEPT !.n = 0],
      [Option("WithCause") EXCEPT !.ps = <<>>],
      [Option("WithCause") EXCEPT !.ps = <<0>>],
      [Option("WithWrap") EXCEPT !.err = NilErr],
      [Option("WithWrap") EXCEPT !.err = PtrErr(0)],
      [Option("WithErrorMessage") EXCEPT !.err = NilErr] }

TotalTemplateOptions ==
    { [Option("TemplateWithMessage") EXCEPT !.s = ""],
      [Option("TemplateWithHelpLink") EXCEPT !.s = "", !.t = ""] }

TotalChanges ==
    { [Option("WithChangeMetadata") EXCEPT !.m = EmptyMap],
      [Option("WithChangeMetadataValue") EXCEPT !.n = VisibilityInternal, !.s = "", !.t = ""],
      [Option("WithChangeID") EXCEPT !.s = ""],
      [Option("WithChangeSourceID") EXCEPT !.s = ""],
      [Option("WithChangeTime") EXCEPT !.n = 0],
      [Option("WithChangeHelpLink") EXCEPT !.s = "", !.t = ""],
      [Option("WithChangeRetryInfoDuration") EXCEPT !.n = 0],
      [Option("WithChangeLocalizedMessage") EXCEPT !.s = "", !.t = ""] }

TotalInit == heap = TotalHeap /\ last = NoCall /\ thr = NoThreads

TotalNewError ==
    /\ ~heap.panic
    /\ Len(heap.errs) < MaxTotalErrs
    /\ \E opts \in Seqs(TotalOptions, MaxTotalOpts) :
          LET r == NewError(heap, "", "", opts)
          IN heap' = r.h /\ last' = Call("NewError", 0, r.p, opts)
    /\ UNCHANGED thr

TotalNewErrorTemplate ==
    /\ ~heap.panic
    /\ Len(heap.tmpls) = 0
    /\ \E opts \in Seqs(TotalTemplateOptions, MaxTotalOpts) :
          LET r == NewErrorTemplate(heap, "", "", opts)
          IN heap' = r.h /\ last' = Call("NewErrorTemplate", 0, r.p, opts)
    /\ UNCHANGED thr

TotalTemplateNewError ==
    /\ ~heap.panic
    /\ Len(heap.tmpls) > 0
    /\ Len(heap.errs) < MaxTotalErrs
    /\ \E opts \in Seqs(TotalOptions, MaxTotalOpts) :
          LET r == TemplateNewError(heap, 1, opts)
          IN heap' = r.h /\ last' = Call("TemplateNewError", 1, r.p, opts)
    /\ UNCHANGED thr

TotalWithChanges ==
    /\ ~heap.panic
    /\ Len(heap.errs) < MaxTotalErrs
    /\ \E e \in Errs(heap), changes \in Seqs(TotalChanges, MaxTotalOpts) :
          LET r == WithChanges(heap, e, changes)
          IN heap' = r.h /\ last' = Call("WithChanges", e, r.p, changes)
    /\ UNCHANGED thr

TotalNext ==
    \/ TotalNewError
    \/ TotalNewErrorTemplate
    \/ TotalTemplateNewError
    \/ TotalWithChanges

SpecTotal == TotalInit /\ [][TotalNext]_vars

\* C7: whatever the arguments of the options, NewError, a template's NewError
\* and WithChanges complete and yield an error value: no option panics.
OptionsAreTotal ==
    last.op \in {"NewError", "TemplateNewError", "WithChanges"} =>
        ~heap.panic /\ last.res \in Errs(heap)


-----------------------------------------------------------------------------
(* Scenario SpecAs: a program defines a template, builds TrogonErrors that   *)
(* may wrap other errors, wraps TrogonErrors in errors of other packages     *)
(* (fmt.Errorf with %w), and asks the template whether it matches.           *)

MaxAsErrs == 2
MaxAsExts == 4

\* The single option of a NewError call: none, a message, or a wrap of a
\* TrogonError or of an error of another package
AsOptionLists(h) ==
    { <<>>, <<[Option("WithMessage") EXCEPT !.s = "m"]>> }
    \cup { <<[Option("WithWrap") EXCEPT !.err = PtrErr(p)]>> : p \in Errs(h) }
    \cup { <<[Option("WithWrap") EXCEPT !.err = ExtErr(x)]>> : x \in 2..Len(h.exts) }

AsNewErrorTemplate ==
    /\ Len(heap.tmpls) = 0
    /\ LET r == NewErrorTemplate(heap, "d1", "r1", <<>>)
       IN heap' = r.h /\ last' = Call("NewErrorTemplate", 0, r.p, <<>>)
    /\ UNCHANGED thr

AsNewError ==
    /\ Len(heap.tmpls) > 0
    /\ Len(heap.errs) < MaxAsErrs
    /\ \E id \in Idents, opts \in AsOptionLists(heap) :
          LET r == NewError(heap, id[1], id[2], opts)
          IN heap' = r.h /\ last' = Call("NewError", 0, r.p, opts)
    /\ UNCHANGED thr

\* wrappedErr := fmt.Errorf("context: %w", originalErr)
AsErrorf ==
    /\ Len(heap.exts) < MaxAsExts
    /\ \E p \in Errs(heap) :
          LET r == Errorf(heap, "context: ", PtrErr(p))
          IN heap' = r.h /\ last' = Call("Errorf", p, r.p, <<>>)
    /\ UNCHANGED thr

AsNext == AsNewErrorTemplate \/ AsNewError \/ AsErrorf

SpecAs == Init /\ [][AsNext]_vars

\* The errors a program can pass: nil, the errors of other packages, and the
\* TrogonErrors by pointer and by value
Targets(h) ==
    {NilErr} \cup Exts(h) \cup {PtrErr(p) : p \in Errs(h)} \cup {ValErr(p) : p \in Errs(h)}

\* A TrogonError has the domain and the reason of a template
SameIdentAsTemplate(h, et, p) ==
    h.tmpls[et].domain = h.errs[p].domain /\ h.tmpls[et].reason = h.errs[p].reason

\* C11: T.Is(err) is true exactly when err is itself a TrogonError, pointer or
\* value, with T's domain and reason, whatever its other fields and whatever
\* it wraps; it is false for nil and for every error of another package, also
\* one that wraps a matching TrogonError.
TemplateIsByDomainAndReason ==
    \A et \in 1..Len(heap.tmpls), t \in Targets(heap) :
        TemplateIs(heap, et, t) <=>
            /\ t.kind \in {"ptr", "val"}
            /\ SameIdentAsTemplate(heap, et, t.ref)

\* The template matches a TrogonError that has a message of its own; it
\* matches neither the error of another package that wraps that TrogonError
\* nor a TrogonError of another identity that wraps it
TemplateIsWitness ==
    /\ Len(heap.tmpls) = 1
    /\ \E p \in Errs(heap), q \in Errs(heap), x \in 1..Len(heap.exts) :
          /\ SameIdentAsTemplate(heap, 1, p)
          /\ heap.errs[p].message = "m"
          /\ TemplateIs(heap, 1, PtrErr(p)) /\ TemplateIs(heap, 1, ValErr(p))
          /\ heap.exts[x].inner = PtrErr(p) /\ ~TemplateIs(heap, 1, ExtErr(x))
          /\ heap.errs[q].wrappedErr = PtrErr(p)
          /\ ~SameIdentAsTemplate(heap, 1, q) /\ ~TemplateIs(heap, 1, PtrErr(q))

\* ---- Chain extraction ----

\* A target of As: a template or an exemplar TrogonError
TmplTarget(et) == [kind |-> "tmpl", ref |-> et]

AsTargets(h) ==
    {TmplTarget(et) : et \in 1..Len(h.tmpls)} \cup {PtrErr(p) : p \in Errs(h)}

\* target.is(err): both the template and the exemplar delegate to their Is
TargetIs(h, target, err) ==
    IF target.kind = "tmpl" THEN TemplateIs(h, target.ref, err)
    ELSE Is(h, target.ref, err)

\* A layer's own unwrap link
UnwrapLayer(h, err) ==
    IF err.kind = "ext" THEN h.exts[err.ref].inner ELSE Unwrap(h, err.ref)

\* As(err, target): the first layer of err's chain that is a TrogonError and
\* that the target identifies, with true; nil and false when there is none
RECURSIVE As(_, _, _)
As(h, err, target) ==
    IF err.kind = "nil" THEN [v |-> NilErr, ok |-> FALSE]
    ELSE IF err.kind \in {"ptr", "val"} /\ TargetIs(h, target, err)
         THEN [v |-> err, ok |-> TRUE]
         ELSE As(h, UnwrapLayer(h, err), target)

\* A TrogonError has the domain and the reason of a target
SameIdentAsTarget(h, target, p) ==
    IF target.kind = "tmpl" THEN SameIdentAsTemplate(h, target.ref, p)
    ELSE SameIdent(h, target.ref, p)

\* The positions of the layers of a chain that are TrogonErrors with the
\* domain and the reason of a target
Matching(h, c, target) ==
    { i \in 1..Len(c) : c[i].kind \in {"ptr", "val"} /\ SameIdentAsTarget(h, target, c[i].ref) }

\* C12: As(err, target) returns the first layer of err's unwrap chain that is
\* a TrogonError with the target's domain and reason, with true, at any
\* depth; it returns nil and false when the chain has no such layer.
AsFirstMatchingLayer ==
    \A err \in Targets(heap), target \in AsTargets(heap) :
        LET c == Chain(heap, err)
            ms == Matching(heap, c, target)
        IN IF ms = {} THEN As(heap, err, target) = [v |-> NilErr, ok |-> FALSE]
           ELSE \E i \in ms :
                   /\ \A j \in ms : i <= j
                   /\ As(heap, err, target) = [v |-> c[i], ok |-> TRUE]

\* A TrogonError of another identity wraps an error of another package that
\* wraps a TrogonError of the template's identity: As finds the third layer,
\* for the template and for an exemplar; it finds nothing in an error of
\* another package that wraps nothing
AsWitness ==
    /\ Len(heap.tmpls) = 1
    /\ \E p \in Errs(heap), q \in Errs(heap), x \in 1..Len(heap.exts) :
          /\ SameIdentAsTemplate(heap, 1, p) /\ ~SameIdentAsTemplate(heap, 1, q)
          /\ heap.exts[x].inner = PtrErr(p)
          /\ heap.errs[q].wrappedErr = ExtErr(x)
          /\ As(heap, PtrErr(q), TmplTarget(1)) = [v |-> PtrErr(p), ok |-> TRUE]
          /\ As(heap, PtrErr(q), PtrErr(p)) = [v |-> PtrErr(p), ok |-> TRUE]
          /\ As(heap, ExtErr(x), PtrErr(q)) = [v |-> NilErr, ok |-> FALSE]
          /\ As(heap, ExtErr(1), TmplTarget(1)) = [v |-> NilErr, ok |-> FALSE]

-----------------------------------------------------------------------------
(* Construction: one call NewError(domain, reason, options...) on a heap that *)
(* holds what the options refer to.                                           *)

MaxNewOpts == 2

\* An error of another package, two TrogonErrors to name as causes, and the
\* values given to WithHelp (one link) and to WithDebugInfo
NewHeap ==
    LET a == ErrorsNew(EmptyHeap, "boom")
        b == NewError(a.h, "d2", "r2", <<>>)
        c == NewError(b.h, "d3", "r3", <<>>)
        l == AppendLinks(c.h.larrs, NilSlice, <<HelpLink("support", "u0")>>)
        d == NewWithHelp([c.h EXCEPT !.larrs = l.arrs], [links |-> l.s])
    IN NewWithDebugInfo(d.h, [stackFrames |-> <<>>, detail |-> "given"]).h

NewHelpOption == [Option("WithHelp") EXCEPT !.c = Len(NewHeap.helps)]

NewDebugOption == [Option("WithDebugInfo") EXCEPT !.c = Len(NewHeap.dbgs)]

NewOptions ==
    { [Option("WithCode") EXCEPT !.n = CodeNotFound],
      [Option("WithCode") EXCEPT !.n = CodeInternal],
      [Option("WithMessage") EXCEPT !.s = "m"],
      [Option("WithMessage") EXCEPT !.s = ""],
      [Option("WithErrorMessage") EXCEPT !.err = ExtErr(1)],
      [Option("WithVisibility") EXCEPT !.n = VisibilityPublic],
      [Option("WithVisibility") EXCEPT !.n = VisibilityPrivate],
      [Option("WithSubject") EXCEPT !.s = "/s"],
      [Option("WithID") EXCEPT !.s = "id-1"],
      [Option("WithTime") EXCEPT !.n = 1],
      [Option("WithTime") EXCEPT !.n = 2],
      [Option("WithSourceID") EXCEPT !.s = "src-1"],
      [Option("WithMetadataValue") EXCEPT !.n = VisibilityPublic, !.s = "orderId", !.t = "1"],
      [Option("WithMetadataValue") EXCEPT !.n = VisibilityPrivate, !.s = "orderId", !.t = "2"],
      [Option("WithMetadataValue") EXCEPT !.n = VisibilityInternal, !.s = "customerId", !.t = "c"],
      [Option("WithMetadata") EXCEPT
          !.m = MapPut(MapPut(EmptyMap, "orderId", MetadataValue("3", VisibilityInternal)),
                       "productType", MetadataValue("p", VisibilityPublic))],
      [Option("WithHelpLink") EXCEPT !.s = "docs", !.t = "u1"],
      [Option("WithHelpLink") EXCEPT !.s = "faq", !.t = "u2"],
      NewHelpOption,
      NewDebugOption,
      [Option("WithDebugDetail") EXCEPT !.s = "detail"],
      [Option("WithStackTrace") EXCEPT !.n = 0],
      [Option("WithLocalizedMessage") EXCEPT !.s = "es-ES", !.t = "hola"],
      [Option("WithRetryInfoDuration") EXCEPT !.n = 30],
      [Option("WithRetryTime") EXCEPT !.n = 5],
      [Option("WithCause") EXCEPT !.ps = <<1>>],
      [Option("WithCause") EXCEPT !.ps = <<2, 1>>],
      [Option("WithWrap") EXCEPT !.err = ExtErr(1)] }

\* The call to make: its domain and reason, and its options
NewInit ==
    /\ heap = NewHeap
    /\ thr = NoThreads
    /\ \E id \in Idents, opts \in Seqs(NewOptions, MaxNewOpts) :
          last = Call("NewError", id, 0, opts)

NewNewError ==
    /\ last.res = 0
    /\ LET r == NewError(heap, last.recv[1], last.recv[2], last.opts)
       IN heap' = r.h /\ last' = [last EXCEPT !.res = r.p]
    /\ UNCHANGED thr

NewNext == NewNewError

SpecNew == NewInit /\ [][NewNext]_vars

\* The fields an option writes; each metadata key is a field of its own, the
\* detail and the frames of the debug info are two fields
Writes(o) ==
    CASE o.k = "WithCode" -> {"code"}
      [] o.k \in {"WithMessage", "WithErrorMessage"} -> {"message"}
      [] o.k = "WithVisibility" -> {"visibility"}
      [] o.k = "WithSubject" -> {"subject"}
      [] o.k = "WithID" -> {"id"}
      [] o.k = "WithTime" -> {"time"}
      [] o.k = "WithSourceID" -> {"sourceID"}
      [] o.k = "WithMetadataValue" -> {"metadata." \o o.s}
      [] o.k = "WithMetadata" -> {"metadata." \o k : k \in DOMAIN o.m}
      [] o.k \in {"WithHelp", "WithHelpLink"} -> {"help"}
      [] o.k = "WithDebugInfo" -> {"detail", "stackFrames"}
      [] o.k = "WithDebugDetail" -> {"detail"}
      [] o.k = "WithStackTrace" -> {"stackFrames"}
      [] o.k = "WithLocalizedMessage" -> {"localizedMessage"}
      [] o.k \in {"WithRetryInfoDuration", "WithRetryTime"} -> {"retryInfo"}
      [] o.k = "WithCause" -> {"causes"}
      [] o.k = "WithWrap" -> {"wrappedErr"}

\* The value an option gives to the scalar field it writes
Given(o) ==
    CASE o.k \in {"WithCode", "WithVisibility"} -> o.n
      [] o.k = "WithTime" -> PtrTo(o.n)
      [] o.k = "WithErrorMessage" -> NewHeap.exts[o.err.ref].msg
      [] OTHER -> o.s

\* The value of the last option of a list that writes a scalar field, the
\* default when no option writes it
LastGiven(opts, field, default) ==
    LET I == {i \in 1..Len(opts) : field \in Writes(opts[i])}
    IN IF I = {} THEN default
       ELSE Given(opts[CHOOSE i \in I : \A j \in I : j <= i])

\* C13: NewError(d, r) without options has domain d, reason r, specVersion 1,
\* code Unknown, visibility Internal, an empty metadata map, no causes and
\* every optional field absent; after any options, Message() is the message
\* the last message option gave when that is not empty, and otherwise the
\* default message of the code the last code option gave (Unknown without one).
NewErrorDefaultsAndMessage ==
    last.res # 0 =>
        /\ last.opts = <<>> =>
              View(heap, last.res) =
                  [specVersion |-> 1, code |-> CodeUnknown, message |-> "",
                   domain |-> last.recv[1], reason |-> last.recv[2],
                   visibility |-> VisibilityInternal,
                   subject |-> "", id |-> "", time |-> NilPtr, sourceID |-> "",
                   localizedMessage |-> NilPtr, retryInfo |-> NilPtr,
                   wrappedErr |-> NilErr,
                   metadataNil |-> FALSE, metadata |-> EmptyMap,
                   causesNil |-> FALSE, causes |-> <<>>,
                   helpNil |-> TRUE, links |-> <<>>, debugInfo |-> <<>>]
        /\ Message(heap, last.res) =
              IF LastGiven(last.opts, "message", "") # ""
              THEN LastGiven(last.opts, "message", "")
              ELSE CodeMessage(LastGiven(last.opts, "code", CodeUnknown))

\* An empty message was set and then a code: Message() is the default
\* message of that code
NewErrorMessageWitness ==
    /\ last.res # 0
    /\ last.opts = << [Option("WithMessage") EXCEPT !.s = ""],
                      [Option("WithCode") EXCEPT !.n = CodeNotFound] >>
    /\ heap.errs[last.res].message = ""
    /\ Message(heap, last.res) = "resource not found"

\* The metadata keys the options of a list write
KeysGiven(opts) ==
    { k \in {"customerId", "orderId", "productType"} :
        \E i \in 1..Len(opts) : ("metadata." \o k) \in Writes(opts[i]) }

\* The value and visibility an option writes under a metadata key
EntryGiven(o, k) ==
    IF o.k = "WithMetadata" THEN o.m[k] ELSE MetadataValue(o.t, o.n)

\* The metadata map in which every key written holds what the last option
\* writing it gave
MetadataGiven(opts) ==
    [k \in KeysGiven(opts) |->
        LET I == {i \in 1..Len(opts) : ("metadata." \o k) \in Writes(opts[i])}
        IN EntryGiven(opts[CHOOSE i \in I : \A j \in I : j <= i], k)]

\* The causes that the WithCause options of a list give, in their order
RECURSIVE CausesGiven(_)
CausesGiven(opts) ==
    IF Len(opts) = 0 THEN <<>>
    ELSE (IF Head(opts).k = "WithCause" THEN Head(opts).ps ELSE <<>>)
         \o CausesGiven(Tail(opts))

\* The scalar fields, the metadata and the causes of the error the call
\* returned are those its options give, applied in argument order
GivenInArgumentOrder ==
    LET e == heap.errs[last.res]
        opts == last.opts
    IN /\ e.code = LastGiven(opts, "code", CodeUnknown)
       /\ e.message = LastGiven(opts, "message", "")
       /\ e.visibility = LastGiven(opts, "visibility", VisibilityInternal)
       /\ e.subject = LastGiven(opts, "subject", "")
       /\ e.id = LastGiven(opts, "id", "")
       /\ e.time = LastGiven(opts, "time", NilPtr)
       /\ e.sourceID = LastGiven(opts, "sourceID", "")
       /\ Metadata(heap, last.res) = MetadataGiven(opts)
       /\ Causes(heap, last.res) = CausesGiven(opts)

\* C14 as stated: the scalar fields hold the value of the last option that
\* sets them, metadata and causes accumulate, and the help links are those
\* of the help-link options in the order given, whatever the other options.
OptionsInArgumentOrderAnyOptions ==
    last.res # 0 =>
        /\ GivenInArgumentOrder
        /\ Links(heap, last.res) = LinksGiven(last.opts)

\* C14: NewError applies its options in argument order: each scalar field
\* holds the value of the last option that sets it, metadata accumulates with
\* the last write of a key winning, causes accumulate in the order given;
\* without a WithHelp option the help links are those of the help-link
\* options in the order given, and with one WithHelp option they are the
\* links of its Help followed by those of the help-link options after it.
OptionsInArgumentOrder ==
    last.res # 0 =>
        /\ GivenInArgumentOrder
        /\ LET I == {i \in 1..Len(last.opts) : last.opts[i].k = "WithHelp"}
               i == LastOption(last.opts, "WithHelp")
               given == IF i = 0 THEN <<>>
                        ELSE SliceElems(NewHeap.larrs, NewHeap.helps[last.opts[i].c].links)
           IN Cardinality(I) <= 1 =>
                 Links(heap, last.res) =
                     given \o LinksGiven(SubSeq(last.opts, i + 1, Len(last.opts)))

\* A help link, then WithHelp, then a help link: the links are those of the
\* Help followed by the second link; or two codes, and the second stays
OptionsInArgumentOrderWitness ==
    /\ last.res # 0
    /\ \/ /\ last.opts = << NewHelpOption,
                            [Option("WithHelpLink") EXCEPT !.s = "faq", !.t = "u2"] >>
          /\ Links(heap, last.res) = <<HelpLink("support", "u0"), HelpLink("faq", "u2")>>
       \/ /\ last.opts = << [Option("WithCode") EXCEPT !.n = CodeNotFound],
                            [Option("WithCode") EXCEPT !.n = CodeInternal] >>
          /\ heap.errs[last.res].code = CodeInternal

\* The error NewError returns for the options of the last call given in the
\* opposite order, field by field
ViewSwapped ==
    LET r == NewError(NewHeap, last.recv[1], last.recv[2],
                      <<last.opts[2], last.opts[1]>>)
    IN View(r.h, r.p)

\* Two writes of one metadata key
SameKeyWrites(a, b) ==
    \E f \in Writes(a) \cap Writes(b) :
        f \in {"metadata.customerId", "metadata.orderId", "metadata.productType"}

\* Two retry options
RetryOptionPair(a, b) == "retryInfo" \in Writes(a) \cap Writes(b)

\* C15 as stated: two options that are neither two writes of one metadata key
\* nor two retry options give the same error in either order.
OptionsCommuteButMetadataAndRetry ==
    (last.res # 0 /\ Len(last.opts) = 2) =>
        LET a == last.opts[1]
            b == last.opts[2]
        IN (~SameKeyWrites(a, b) /\ ~RetryOptionPair(a, b)) =>
               View(heap, last.res) = ViewSwapped

\* C15: two options that write no field in common (every metadata key, the
\* help links, the causes, the debug detail and the stack frames each counting
\* as a field) give the same error, field by field, in either order.
OptionsCommute ==
    (last.res # 0 /\ Len(last.opts) = 2) =>
        LET a == last.opts[1]
            b == last.opts[2]
        IN Writes(a) \cap Writes(b) = {} => View(heap, last.res) = ViewSwapped

\* A debug detail and a stack trace, which share the debug info but write
\* different fields of it, and a metadata value with a help link
OptionsCommuteWitness ==
    /\ last.res # 0
    /\ Len(last.opts) = 2
    /\ \/ /\ last.opts = << [Option("WithDebugDetail") EXCEPT !.s = "detail"],
                            [Option("WithStackTrace") EXCEPT !.n = 0] >>
          /\ View(heap, last.res).debugInfo[1].detail = "detail"
          /\ Len(View(heap, last.res).debugInfo[1].stackFrames) > 0
       \/ /\ last.opts[1].k = "WithMetadataValue" /\ last.opts[2].k = "WithHelpLink"
    /\ View(heap, last.res) = ViewSwapped

-----------------------------------------------------------------------------
(* Rendering. *)

\* Every optional field of an error is empty or absent
EmptyOptionalFields(h, e) ==
    LET x == h.errs[e] IN
    /\ x.id = "" /\ x.subject = "" /\ x.sourceID = ""
    /\ x.time = NilPtr /\ x.retryInfo = NilPtr
    /\ DOMAIN Metadata(h, e) = {}
    /\ Len(Links(h, e)) = 0
    /\ x.wrappedErr.kind = "nil"
    /\ x.debugInfo # 0 =>
          /\ h.dbgs[x.debugInfo].detail = ""
          /\ Len(h.dbgs[x.debugInfo].stackFrames) = 0

\* The five lines every rendering starts with
FiveLines(h, e) ==
    TrimSpace(Message(h, e))
       \o "\n  visibility: " \o VisibilityString(h.errs[e].visibility)
       \o "\n  domain: " \o h.errs[e].domain
       \o "\n  reason: " \o h.errs[e].reason
       \o "\n  code: " \o CodeString(h.errs[e].code)

\* C16: an error whose optional fields are all empty or absent, however the
\* empty values were supplied, renders as the five lines message, visibility,
\* domain, reason, code and nothing more.
EmptyRendersFiveLines ==
    ~heap.panic =>
        \A e \in Errs(heap) :
            EmptyOptionalFields(heap, e) => Error(heap, e) = FiveLines(heap, e)

MaxFmtOpts == 2
MaxFmtChanges == 1

\* NewHeap, with the value given to WithHelp(Help{}) and, as error 3, a
\* TrogonError to wrap that itself has a help link, a wrapped error and a
\* debug detail
FmtHeap ==
    LET a == NewWithHelp(NewHeap, [links |-> NilSlice])
    IN NewError(a.h, "d3", "r1",
                << [Option("WithCode") EXCEPT !.n = CodeInternal],
                   [Option("WithMessage") EXCEPT !.s = "inner"],
                   [Option("WithHelpLink") EXCEPT !.s = "in", !.t = "u9"],
                   [Option("WithWrap") EXCEPT !.err = ExtErr(1)],
                   [Option("WithDebugDetail") EXCEPT !.s = "deep"] >>).h

FmtEmptyHelpOption == NewWithHelp(NewHeap, [links |-> NilSlice]).o

FmtOptions ==
    { [Option("WithMessage") EXCEPT !.s = "m"],
      [Option("WithID") EXCEPT !.s = "id-1"],
      [Option("WithTime") EXCEPT !.n = 1],
      [Option("WithSubject") EXCEPT !.s = "/s"],
      [Option("WithSourceID") EXCEPT !.s = "src-1"],
      [Option("WithRetryInfoDuration") EXCEPT !.n = 30],
      [Option("WithRetryTime") EXCEPT !.n = 5],
      [Option("WithMetadataValue") EXCEPT !.n = VisibilityPublic, !.s = "productType", !.t = "digital"],
      [Option("WithMetadataValue") EXCEPT !.n = VisibilityPublic, !.s = "customerId", !.t = "c"],
      [Option("WithMetadataValue") EXCEPT !.n = VisibilityPrivate, !.s = "orderId", !.t = "1"],
      [Option("WithHelpLink") EXCEPT !.s = "docs", !.t = "u1"],
      [Option("WithHelpLink") EXCEPT !.s = "faq", !.t = "u2"],
      NewHelpOption,
      FmtEmptyHelpOption,
      [Option("WithWrap") EXCEPT !.err = ExtErr(1)],
      [Option("WithWrap") EXCEPT !.err = PtrErr(3)],
      [Option("WithDebugDetail") EXCEPT !.s = "detail"],
      [Option("WithStackTraceDepth") EXCEPT !.n = 2] }

\* Every optional section, the options in the opposite of the rendering order
AllSectionsReversed ==
    << [Option("WithDebugDetail") EXCEPT !.s = "detail"],
       [Option("WithWrap") EXCEPT !.err = ExtErr(1)],
       [Option("WithHelpLink") EXCEPT !.s = "docs", !.t = "u1"],
       [Option("WithMetadataValue") EXCEPT !.n = VisibilityPrivate, !.s = "orderId", !.t = "1"],
       [Option("WithRetryInfoDuration") EXCEPT !.n = 30],
       [Option("WithSourceID") EXCEPT !.s = "src-1"],
       [Option("WithSubject") EXCEPT !.s = "/s"],
       [Option("WithTime") EXCEPT !.n = 1],
       [Option("WithID") EXCEPT !.s = "id-1"] >>

\* The keys productType, customerId, orderId inserted in that order
MetadataUnordered ==
    << [Option("WithMetadataValue") EXCEPT !.n = VisibilityPublic, !.s = "productType", !.t = "digital"],
       [Option("WithMetadataValue") EXCEPT !.n = VisibilityPublic, !.s = "customerId", !.t = "c"],
       [Option("WithMetadataValue") EXCEPT !.n = VisibilityPrivate, !.s = "orderId", !.t = "1"] >>

FmtInputs == Seqs(FmtOptions, MaxFmtOpts) \cup {AllSectionsReversed, MetadataUnordered}

FmtChanges ==
    { [Option("WithChangeMetadataValue") EXCEPT !.n = VisibilityPrivate, !.s = "customerId", !.t = "2"],
      [Option("WithChangeMetadataValue") EXCEPT !.n = VisibilityPublic, !.s = "orderId", !.t = "3"],
      [Option("WithChangeMetadataValue") EXCEPT !.n = VisibilityInternal, !.s = "productType", !.t = "p"],
      [Option("WithChangeHelpLink") EXCEPT !.s = "status", !.t = "u4"],
      [Option("WithChangeID") EXCEPT !.s = "id-2"] }

FmtInit ==
    /\ heap = FmtHeap
    /\ thr = NoThreads
    /\ \E opts \in FmtInputs : last = Call("NewError", <<"d1", "r1">>, 0, opts)

\* err.WithChanges(changes...) on the error the call returned
FmtWithChanges ==
    /\ last.op = "NewError"
    /\ last.res # 0
    /\ \E changes \in Seqs(FmtChanges, MaxFmtChanges) :
          LET r == WithChanges(heap, last.res, changes)
          IN heap' = r.h /\ last' = Call("WithChanges", last.res, r.p, changes)
    /\ UNCHANGED thr

FmtNext == NewNewError \/ FmtWithChanges

SpecFmt == FmtInit /\ [][FmtNext]_vars

\* The positions of the line breaks of a text, and its end
Breaks(s) == {i \in 1..Len(s) : SubSeq(s, i, i) = "\n"} \cup {Len(s) + 1}

\* The lines of a text
Lines(s) ==
    LET bs == Breaks(s)
        Nth(k) == CHOOSE b \in bs : Cardinality({c \in bs : c < b}) = k - 1
    IN [k \in 1..Cardinality(bs) |->
           SubSeq(s, IF k = 1 THEN 1 ELSE Nth(k - 1) + 1, Nth(k) - 1)]

HasPrefix(s, prefix) == Len(s) >= Len(prefix) /\ SubSeq(s, 1, Len(prefix)) = prefix

\* The section a line of a rendering belongs to, by its position in the fixed
\* order; 0 for a blank line
SectionRank(i, line) ==
    CASE i = 1 -> 1
      [] line = "" -> 0
      [] HasPrefix(line, "  visibility: ") -> 2
      [] HasPrefix(line, "  domain: ") -> 3
      [] HasPrefix(line, "  reason: ") -> 4
      [] HasPrefix(line, "  code: ") -> 5
      [] HasPrefix(line, "  id: ") -> 6
      [] HasPrefix(line, "  time: ") -> 7
      [] HasPrefix(line, "  subject: ") -> 8
      [] HasPrefix(line, "  sourceId: ") -> 9
      [] HasPrefix(line, "  retryInfo: ") -> 10
      [] line = "  metadata:" -> 11
      [] HasPrefix(line, "    - ") -> 11
      [] HasPrefix(line, "- ") -> 12
      [] HasPrefix(line, "wrapped error: ") -> 13
      [] OTHER -> 14

\* The number of lines of a section
SectionLines(ls, rank) == Cardinality({i \in 1..Len(ls) : SectionRank(i, ls[i]) = rank})

\* C17: the rendering lists the sections in the order message, visibility,
\* domain, reason, code, id, time, subject, sourceId, retryInfo, metadata,
\* help links, wrapped error, debug info, whatever the order of the options;
\* the first five and each of id, time, subject, sourceId and retryInfo that
\* is present are one line each, an absent one none.  (Errors whose wrapped
\* error's text is one line.)
SectionsInFixedOrder ==
    (last.res # 0 /\ heap.errs[last.res].wrappedErr.kind \in {"nil", "ext"}) =>
        LET x == heap.errs[last.res]
            ls == Lines(Error(heap, last.res))
            One(b) == IF b THEN 1 ELSE 0
        IN /\ \A i \in 1..Len(ls), j \in 1..Len(ls) :
                 (i < j /\ SectionRank(i, ls[i]) # 0 /\ SectionRank(j, ls[j]) # 0)
                     => SectionRank(i, ls[i]) <= SectionRank(j, ls[j])
           /\ \A rank \in 1..5 : SectionLines(ls, rank) = 1
           /\ SectionLines(ls, 6) = One(x.id # "")
           /\ SectionLines(ls, 7) = One(x.time # NilPtr)
           /\ SectionLines(ls, 8) = One(x.subject # "")
           /\ SectionLines(ls, 9) = One(x.sourceID # "")
           /\ SectionLines(ls, 10) = One(x.retryInfo # NilPtr)
           /\ SectionLines(ls, 11) > 0 <=> DOMAIN Metadata(heap, last.res) # {}
           /\ SectionLines(ls, 12) = Len(Links(heap, last.res))
           /\ SectionLines(ls, 13) = One(x.wrappedErr.kind # "nil")
           /\ SectionLines(ls, 14) > 0 => x.debugInfo # 0

\* Every optional section given, in the opposite of the rendering order
SectionsInFixedOrderWitness ==
    /\ last.op = "NewError" /\ last.res # 0
    /\ last.opts = AllSectionsReversed
    /\ Error(heap, last.res) =
          "unknown error\n  visibility: INTERNAL\n  domain: d1\n  reason: r1\n  code: UNKNOWN"
          \o "\n  id: id-1\n  time: 2024-01-01T12:00:01Z\n  subject: /s\n  sourceId: src-1"
          \o "\n  retryInfo: retryOffset=30s\n  metadata:\n    - orderId: 1 visibility=PRIVATE"
          \o "\n\n- docs: u1\n\nwrapped error: boom\n\ndetail"

\* C18: the metadata lines follow the line "  metadata:", one per key, the
\* line of a key at the position of the key in ascending order, whatever the
\* order in which construction options and change options inserted the keys.
MetadataInKeyOrder ==
    last.res # 0 =>
        LET m == Metadata(heap, last.res)
            ls == Lines(Error(heap, last.res))
            I == {i \in 1..Len(ls) : HasPrefix(ls[i], "    - ")}
            H == {i \in 1..Len(ls) : ls[i] = "  metadata:"}
            Position(k) == Cardinality({j \in DOMAIN m : StrLess(j, k)}) + 1
        IN /\ Cardinality(I) = Cardinality(DOMAIN m)
           /\ Cardinality(H) = IF DOMAIN m = {} THEN 0 ELSE 1
           /\ \A hd \in H, k \in DOMAIN m :
                 /\ hd + Position(k) \in I
                 /\ ls[hd + Position(k)] =
                       "    - " \o k \o ": " \o m[k].value
                           \o " visibility=" \o VisibilityString(m[k].visibility)

\* productType and orderId given at construction, customerId added by a
\* change: the lines are customerId, orderId, productType
MetadataInKeyOrderWitness ==
    /\ last.op = "WithChanges" /\ last.res # 0
    /\ DOMAIN Metadata(heap, last.recv) = {"productType", "orderId"}
    /\ DOMAIN Metadata(heap, last.res) = {"productType", "orderId", "customerId"}
    /\ Error(heap, last.res) =
          "unknown error\n  visibility: INTERNAL\n  domain: d1\n  reason: r1\n  code: UNKNOWN"
          \o "\n  metadata:\n    - customerId: 2 visibility=PRIVATE"
          \o "\n    - orderId: 1 visibility=PRIVATE\n    - productType: digital visibility=PUBLIC"

\* The same error without help, and without help, wrapped error and debug info
WithoutHelp(h, e) == [h EXCEPT !.errs[e].help = 0]

Bare(h, e) ==
    [h EXCEPT !.errs[e].help = 0, !.errs[e].wrappedErr = NilErr, !.errs[e].debugInfo = 0]

\* The links in the order they were added: those the help-link options gave
\* when the error comes from NewError without a WithHelp option, the links
\* the error holds otherwise
LinksAdded ==
    IF last.op = "NewError" /\ ~HasOption(last.opts, "WithHelp")
    THEN LinksGiven(last.opts) ELSE Links(heap, last.res)

\* C19: with at least one help link the rendering is that of the error
\* without help, with a blank line and then one line per link, in the order
\* the links were added and without blank lines between them, put in after
\* the metadata; without links, help absent or empty, it is the rendering of
\* the error without help.
HelpLinksSection ==
    last.res # 0 =>
        LET e == last.res
            before == Error(Bare(heap, e), e)
            without == Error(WithoutHelp(heap, e), e)
            after == SubSeq(without, Len(before) + 1, Len(without))
            lines == [i \in 1..Len(LinksAdded) |->
                         "- " \o LinksAdded[i].description \o ": " \o LinksAdded[i].url]
        IN /\ without = before \o after
           /\ Error(heap, e) =
                 IF Len(LinksAdded) = 0 THEN without
                 ELSE before \o "\n" \o JoinLines("\n", lines) \o after

\* Two links: they follow a blank line, in the order given
HelpLinksSectionWitness ==
    /\ last.op = "NewError" /\ last.res # 0
    /\ last.opts = << [Option("WithHelpLink") EXCEPT !.s = "faq", !.t = "u2"],
                      [Option("WithHelpLink") EXCEPT !.s = "docs", !.t = "u1"] >>
    /\ Error(heap, last.res) =
          "unknown error\n  visibility: INTERNAL\n  domain: d1\n  reason: r1\n  code: UNKNOWN"
          \o "\n\n- faq: u2\n- docs: u1"

\* The same error without wrapped error, and without wrapped error and debug
\* info
WithoutWrapped(h, e) == [h EXCEPT !.errs[e].wrappedErr = NilErr]

WithoutWrappedAndDebug(h, e) ==
    [h EXCEPT !.errs[e].wrappedErr = NilErr, !.errs[e].debugInfo = 0]

\* The wrapped section of an error: a blank line, the label and the text of
\* the wrapped error, the rendering of a TrogonError or the text an error of
\* another package gives
WrappedSection(h, e) ==
    LET w == h.errs[e].wrappedErr
    IN "\n\nwrapped error: "
           \o (IF w.kind = "ext" THEN h.exts[w.ref].msg ELSE Error(h, w.ref))

\* C20 as stated: the rendering of an error that wraps w is the rendering of
\* the same error without w followed by the wrapped section.
WrappedSectionLast ==
    (last.res # 0 /\ heap.errs[last.res].wrappedErr.kind # "nil") =>
        Error(heap, last.res) =
            Error(WithoutWrapped(heap, last.res), last.res)
                \o WrappedSection(heap, last.res)

\* C20: the rendering of an error that wraps w is the rendering of the same
\* error without w with the wrapped section (a blank line, "wrapped error: "
\* and w's text, w's own rendering when w is a TrogonError) put in after the
\* help links and before the debug detail and stack entries, at the end when
\* the error has no debug info.
WrappedSectionBeforeDebug ==
    (last.res # 0 /\ heap.errs[last.res].wrappedErr.kind # "nil") =>
        LET e == last.res
            before == Error(WithoutWrappedAndDebug(heap, e), e)
            without == Error(WithoutWrapped(heap, e), e)
            after == SubSeq(without, Len(before) + 1, Len(without))
        IN /\ without = before \o after
           /\ Error(heap, e) = before \o WrappedSection(heap, e) \o after

\* An error with a debug detail wraps a TrogonError that has a help link, a
\* wrapped error and a debug detail of its own
WrappedSectionWitness ==
    /\ last.op = "NewError" /\ last.res # 0
    /\ last.opts = << [Option("WithDebugDetail") EXCEPT !.s = "detail"],
                      [Option("WithWrap") EXCEPT !.err = PtrErr(3)] >>
    /\ Error(heap, last.res) =
          "unknown error\n  visibility: INTERNAL\n  domain: d1\n  reason: r1\n  code: UNKNOWN"
          \o "\n\nwrapped error: inner\n  visibility: INTERNAL\n  domain: d3\n  reason: r1"
          \o "\n  code: INTERNAL\n\n- in: u9\n\nwrapped error: boom\n\ndeep"
          \o "\n\ndetail"

\* C21: Error() returns a string for every error built through the options,
\* also one that wraps an absent error value: rendering never fails.
ErrorIsTotal ==
    ~heap.panic => \A e \in Errs(heap) : ~ErrorPanics(heap, PtrErr(e))

-----------------------------------------------------------------------------
(* Codes: one call of a method of a Code value. *)

MaxCodeValue == 30

\* Code is an int: the 16 codes, 0, a negative value and values past the
\* last code
CodeInputs == (-1..MaxCodeValue) \cup {999}

CodeInit ==
    /\ heap = EmptyHeap
    /\ thr = NoThreads
    /\ \E c \in CodeInputs : last = Call("Code", c, 0, <<>>)

CodeHttpStatusCode ==
    /\ last.op = "Code"
    /\ last' = Call("HttpStatusCode", last.recv, HttpStatusCode(last.recv), <<>>)
    /\ UNCHANGED <<heap, thr>>

CodeStringOf ==
    /\ last.op = "Code"
    /\ last' = Call("String", last.recv, CodeString(last.recv), <<>>)
    /\ UNCHANGED <<heap, thr>>

CodeMessageOf ==
    /\ last.op = "Code"
    /\ last' = Call("Message", last.recv, CodeMessage(last.recv), <<>>)
    /\ UNCHANGED <<heap, thr>>

CodeNext == CodeHttpStatusCode \/ CodeStringOf \/ CodeMessageOf

SpecCode == CodeInit /\ [][CodeNext]_vars

Codes == CodeCancelled..CodeUnauthenticated

\* C22: the 16 codes have the HTTP statuses 499, 500, 400, 504, 404, 409,
\* 403, 401, 429, 400, 409, 400, 501, 500, 503 and 500 (in the order
\* Cancelled, Unknown, InvalidArgument, DeadlineExceeded, NotFound,
\* AlreadyExists, PermissionDenied, Unauthenticated, ResourceExhausted,
\* FailedPrecondition, Aborted, OutOfRange, Unimplemented, Internal,
\* Unavailable, DataLoss); every other value has the status 500, the name
\* "UNKNOWN" and the message "unknown error", which are those of Unknown.
CodeTable ==
    LET c == last.recv
        status == [x \in Codes |->
            CASE x = CodeCancelled -> 499
              [] x \in {CodeUnknown, CodeInternal, CodeDataLoss} -> 500
              [] x \in {CodeInvalidArgument, CodeFailedPrecondition, CodeOutOfRange} -> 400
              [] x = CodeDeadlineExceeded -> 504
              [] x = CodeNotFound -> 404
              [] x \in {CodeAlreadyExists, CodeAborted} -> 409
              [] x = CodePermissionDenied -> 403
              [] x = CodeUnauthenticated -> 401
              [] x = CodeResourceExhausted -> 429
              [] x = CodeUnimplemented -> 501
              [] x = CodeUnavailable -> 503]
    IN /\ last.op = "HttpStatusCode" =>
             last.res = IF c \in Codes THEN status[c] ELSE 500
       /\ (last.op = "String" /\ c \notin Codes \ {CodeUnknown}) => last.res = "UNKNOWN"
       /\ (last.op = "Message" /\ c \notin Codes \ {CodeUnknown}) => last.res = "unknown error"
       /\ (last.op = "String" /\ c \in Codes \ {CodeUnknown}) => last.res # "UNKNOWN"
       /\ (last.op = "Message" /\ c \in Codes \ {CodeUnknown}) => last.res # "unknown error"

\* The message of the value 999
CodeTableWitness ==
    last.op = "Message" /\ last.recv = 999 /\ last.res = "unknown error"

\* The HTTP Status column of the table "Error Codes and HTTP Status Mapping"
\* of the package documentation
DocStatus(c) ==
    CASE c = CodeCancelled -> 499
      [] c = CodeUnknown -> 500
      [] c = CodeInvalidArgument -> 400
      [] c = CodeDeadlineExceeded -> 504
      [] c = CodeNotFound -> 404
      [] c = CodeAlreadyExists -> 409
      [] c = CodePermissionDenied -> 403
      [] c = CodeUnauthenticated -> 401
      [] c = CodeResourceExhausted -> 429
      [] c = CodeFailedPrecondition -> 422
      [] c = CodeAborted -> 409
      [] c = CodeOutOfRange -> 400
      [] c = CodeUnimplemented -> 501
      [] c = CodeInternal -> 500
      [] c = CodeUnavailable -> 503
      [] c = CodeDataLoss -> 500

\* C23 as stated: for each of the 16 codes HttpStatusCode() is the status the
\* documentation table lists.
StatusAsDocumented ==
    (last.op = "HttpStatusCode" /\ last.recv \in Codes) =>
        last.res = DocStatus(last.recv)

-----------------------------------------------------------------------------
(* Stack traces: one call of NewError or of a template's NewError, made from  *)
(* main.caller, with options that record the stack.                          *)

MaxStackDepth == 8
MaxStackOpts == 2

StackHeap == NewErrorTemplate(EmptyHeap, "d1", "r1", <<>>).h

StackOptions ==
    { [Option("WithStackTraceDepth") EXCEPT !.n = n] : n \in (-1)..MaxStackDepth }
    \cup { [Option("WithStackTrace") EXCEPT !.n = 0],
           [Option("WithDebugDetail") EXCEPT !.s = "detail"] }

StackInit ==
    /\ heap = StackHeap
    /\ thr = NoThreads
    /\ \E opts \in Seqs(StackOptions, MaxStackOpts) :
          last = Call("NewError", <<"d1", "r1">>, 0, opts)

\* template.NewError(options...)
StackTemplateNewError ==
    /\ last.res = 0
    /\ LET r == TemplateNewError(heap, 1, last.opts)
       IN heap' = r.h /\ last' = Call("TemplateNewError", 1, r.p, last.opts)
    /\ UNCHANGED thr

StackNext == NewNewError \/ StackTemplateNewError

SpecStack == StackInit /\ [][StackNext]_vars

\* The last option of a list that records the stack, 0 when it has none
LastStackOption(opts) ==
    LET I == {i \in 1..Len(opts) : opts[i].k \in {"WithStackTrace", "WithStackTraceDepth"}}
    IN IF I = {} THEN 0 ELSE CHOOSE i \in I : \A j \in I : j <= i

\* The frames the error of the last call holds
FramesRecorded == heap.dbgs[heap.errs[last.res].debugInfo].stackFrames

\* The frames the same call records with its last stack option replaced by
\* WithStackTraceDepth(32)
FramesAtDefaultDepth ==
    LET opts == [last.opts EXCEPT ![LastStackOption(last.opts)] =
                     [Option("WithStackTraceDepth") EXCEPT !.n = 32]]
        r == IF last.op = "NewError" THEN NewError(StackHeap, "d1", "r1", opts)
             ELSE TemplateNewError(StackHeap, 1, opts)
    IN r.h.dbgs[r.h.errs[r.p].debugInfo].stackFrames

\* C24: WithStackTraceDepth(n) with n > 0 records at least one and at most n
\* frames; with n <= 0, and WithStackTrace(), it records what depth 32
\* records; StackEntries() has one entry per frame recorded.
StackDepth ==
    (last.res # 0 /\ LastStackOption(last.opts) # 0) =>
        LET o == last.opts[LastStackOption(last.opts)]
        IN /\ (o.k = "WithStackTraceDepth" /\ o.n > 0) =>
                 (Len(FramesRecorded) >= 1 /\ Len(FramesRecorded) <= o.n)
           /\ (o.k = "WithStackTrace" \/ o.n <= 0) =>
                 FramesRecorded = FramesAtDefaultDepth
           /\ Len(StackEntries(heap.dbgs[heap.errs[last.res].debugInfo]))
                 = Len(FramesRecorded)

\* Depth 0 records the whole stack, more than one frame, as depth 32 does
StackDepthWitness ==
    /\ last.op = "NewError" /\ last.res # 0
    /\ last.opts = << [Option("WithStackTraceDepth") EXCEPT !.n = 0] >>
    /\ Len(FramesRecorded) > 1
    /\ FramesRecorded = FramesAtDefaultDepth

\* C25: the stack recorded starts at the caller of the construction call: the
\* first frame is the function that called NewError or the template's
\* NewError.
StackStartsAtCaller ==
    (last.res # 0 /\ LastStackOption(last.opts) # 0) =>
        FramesRecorded[1].Function = "main.caller"

-----------------------------------------------------------------------------
(* Stamping: a template with some help links, and errors stamped from it one *)
(* after the other.                                                           *)

MaxStampErrs == 3

StampInit == heap = EmptyHeap /\ last = NoCall /\ thr = NoThreads

\* template.NewError(options...)
StampNewError ==
    /\ Len(heap.tmpls) > 0
    /\ Len(heap.errs) < MaxStampErrs
    /\ \E opts \in Seqs(ConcInstanceOptions, MaxConcOpts) :
          LET r == TemplateNewError(heap, 1, opts)
          IN heap' = r.h /\ last' = Call("TemplateNewError", 1, r.p, opts)
    /\ UNCHANGED thr

StampNext == ConcNewErrorTemplate \/ StampNewError

SpecStamp == StampInit /\ [][StampNext]_vars

\* C26: stamping an error from a template, with or without a help link of its
\* own, leaves the help links of the template and of every error stamped
\* before as they were.
StampedIndependent ==
    [][Len(heap.tmpls) > 0 =>
          /\ TemplateLinks(heap', 1) = TemplateLinks(heap, 1)
          /\ \A e \in Errs(heap) : Links(heap', e) = Links(heap, e)]_vars

-----------------------------------------------------------------------------
(* Reuse: the option values opt := WithHelp(h) and opt := WithDebugInfo(d)   *)
(* made once and passed to more than one NewError call.                       *)

MaxReuseErrs == 2

MaxReuseOpts == 2

ReuseOptions ==
    { NewHelpOption,
      NewDebugOption,
      [Option("WithHelpLink") EXCEPT !.s = "docs", !.t = "u1"],
      [Option("WithDebugDetail") EXCEPT !.s = "detail"],
      [Option("WithStackTrace") EXCEPT !.n = 0] }

ReuseInit == heap = NewHeap /\ last = NoCall /\ thr = NoThreads

\* NewError(domain, reason, options...) with the option values made before
ReuseNewError ==
    /\ Len(heap.errs) < Len(NewHeap.errs) + MaxReuseErrs
    /\ \E opts \in Seqs(ReuseOptions, MaxReuseOpts) :
          LET r == NewError(heap, "d1", "r1", opts)
          IN heap' = r.h /\ last' = Call("NewError", 0, r.p, opts)
    /\ UNCHANGED thr

ReuseNext == ReuseNewError

SpecReuse == ReuseInit /\ [][ReuseNext]_vars

\* C27: a NewError call, whatever options it is given, leaves the help and
\* the debug info of every error built before as they were, the errors built
\* from the same WithHelp(h) or WithDebugInfo(d) option value included.
OptionValueReusable ==
    [][\A e \in Errs(heap) :
          /\ View(heap', e).helpNil = View(heap, e).helpNil
          /\ View(heap', e).links = View(heap, e).links
          /\ View(heap', e).debugInfo = View(heap, e).debugInfo]_vars

-----------------------------------------------------------------------------
(* WithChanges: what the result keeps of the receiver *)

\* The fields no change option targets
Untargeted(v) ==
    [domain |-> v.domain, reason |-> v.reason, code |-> v.code, message |-> v.message,
     visibility |-> v.visibility, subject |-> v.subject, causes |-> v.causes,
     wrappedErr |-> v.wrappedErr, debugInfo |-> v.debugInfo]

\* C28 as stated: r = e.WithChanges(c...) has e's domain, reason, code,
\* message, visibility, subject, causes, wrapped error and debug info whatever
\* c is; with no change option r shows what e shows in every field, Metadata()
\* and Causes() being nil in both or in neither; and r.Is(e) and e.Is(r) hold.
ChangesKeepEveryField ==
    last.op = "WithChanges" =>
        LET r == View(heap, last.res)
            e == View(heap, last.recv)
        IN /\ Untargeted(r) = Untargeted(e)
           /\ r.causesNil = e.causesNil
           /\ last.opts = <<>> => r = e
           /\ Is(heap, last.res, PtrErr(last.recv))
           /\ Is(heap, last.recv, PtrErr(last.res))

\* C28: r = e.WithChanges(c...) has e's domain, reason, code, message,
\* visibility, subject, wrapped error and debug info, and e's causes in their
\* order, whatever c is; with no change option r shows what e shows in every
\* field; r.Is(e) and e.Is(r) hold.  The exception: Causes() of r is nil
\* exactly when e has no cause, and with no change option Metadata() of r is
\* nil exactly when e has no entry, whether or not e's is nil.
ChangesKeepUntargeted ==
    last.op = "WithChanges" =>
        LET r == View(heap, last.res)
            e == View(heap, last.recv)
            Rest(v) == [f \in DOMAIN v \ {"metadataNil", "causesNil"} |-> v[f]]
        IN /\ Untargeted(r) = Untargeted(e)
           /\ r.causesNil = (Len(e.causes) = 0)
           /\ last.opts = <<>> =>
                 /\ Rest(r) = Rest(e)
                 /\ r.metadataNil = (DOMAIN e.metadata = {})
           /\ Is(heap, last.res, PtrErr(last.recv))
           /\ Is(heap, last.recv, PtrErr(last.res))

\* A change of the id of the error with every field set: the result has the
\* new id, and the receiver's subject, wrapped error, cause, debug detail
ChangesKeepUntargetedWitness ==
    /\ last.op = "WithChanges"
    /\ Len(last.opts) = 1 /\ last.opts[1].k = "WithChangeID"
    /\ heap.errs[last.recv].id = "id-1" /\ heap.errs[last.res].id = "id-2"
    /\ heap.errs[last.res].subject = "/s"
    /\ heap.errs[last.res].wrappedErr = PtrErr(1)
    /\ Causes(heap, last.res) = <<1>>
    /\ heap.errs[last.res].debugInfo # 0
    /\ heap.dbgs[heap.errs[last.res].debugInfo].detail = "detail"

-----------------------------------------------------------------------------
(* Access: a program builds an error, then stores into what the accessors    *)
(* returned: m := err.Metadata(); m[k] = v, and s := err.Causes(),           *)
(* err.Help().Links(), err.DebugInfo().StackFrames(); s[0] = x.               *)

MaxAccessOpts == 2

AccessOptions ==
    { [Option("WithMetadataValue") EXCEPT !.n = VisibilityPublic, !.s = "orderId", !.t = "1"],
      [Option("WithCause") EXCEPT !.ps = <<1>>],
      [Option("WithHelpLink") EXCEPT !.s = "docs", !.t = "u1"],
      [Option("WithStackTraceDepth") EXCEPT !.n = 2],
      [Option("WithID") EXCEPT !.s = "id-1"] }

\* The error the program builds
AccessErr == Len(NewHeap.errs) + 1

AccessInit == heap = NewHeap /\ last = NoCall /\ thr = NoThreads

AccessNewError ==
    /\ Len(heap.errs) < AccessErr
    /\ \E opts \in Seqs(AccessOptions, MaxAccessOpts) :
          LET r == NewError(heap, "d1", "r1", opts)
          IN heap' = r.h /\ last' = Call("NewError", 0, r.p, opts)
    /\ UNCHANGED thr

\* m := err.Metadata(); m[k] = MetadataValue{}
AccessMetadataStore ==
    /\ Len(heap.errs) = AccessErr
    /\ heap.errs[AccessErr].metadata # 0
    /\ \E k \in {"orderId", "added"} :
          /\ heap' = [heap EXCEPT !.maps[heap.errs[AccessErr].metadata] =
                                      MapPut(@, k, MetadataValue("", 0))]
          /\ last' = Call("Metadata", AccessErr, 0, <<k>>)
    /\ UNCHANGED thr

\* cs := err.Causes(); cs[0] = other
AccessCausesStore ==
    /\ Len(heap.errs) = AccessErr
    /\ heap.errs[AccessErr].causes.len > 0
    /\ heap' = [heap EXCEPT !.carrs[heap.errs[AccessErr].causes.arr][1] = 2]
    /\ last' = Call("Causes", AccessErr, 0, <<>>)
    /\ UNCHANGED thr

\* ls := err.Help().Links(); ls[0] = HelpLink{}
AccessLinksStore ==
    /\ Len(heap.errs) = AccessErr
    /\ heap.errs[AccessErr].help # 0
    /\ heap.helps[heap.errs[AccessErr].help].links.len > 0
    /\ heap' = [heap EXCEPT !.larrs[heap.helps[heap.errs[AccessErr].help].links.arr][1] =
                                ZeroHelpLink]
    /\ last' = Call("Links", AccessErr, 0, <<>>)
    /\ UNCHANGED thr

\* fs := err.DebugInfo().StackFrames(); fs[0] = runtime.Frame{}: the store
\* goes to the slice StackFrames made
AccessStackFramesStore ==
    /\ Len(heap.errs) = AccessErr
    /\ heap.errs[AccessErr].debugInfo # 0
    /\ Len(StackFrames(heap.dbgs[heap.errs[AccessErr].debugInfo])) > 0
    /\ last' = Call("StackFrames", AccessErr, 0, <<>>)
    /\ UNCHANGED <<heap, thr>>

AccessNext ==
    \/ AccessNewError
    \/ AccessMetadataStore
    \/ AccessCausesStore
    \/ AccessLinksStore
    \/ AccessStackFramesStore

SpecAccess == AccessInit /\ [][AccessNext]_vars

\* C29: a store into the map Metadata() returned, or into the slice Causes(),
\* Help().Links() or DebugInfo().StackFrames() returned, leaves what the
\* error's accessors return and what Error() renders as they were.
AccessorsGiveNoWriteAccess ==
    [][Len(heap.errs) = AccessErr =>
          /\ View(heap', AccessErr) = View(heap, AccessErr)
          /\ Error(heap', AccessErr) = Error(heap, AccessErr)]_vars

-----------------------------------------------------------------------------
(* Meta: metadata change options.  The program holds a map m, builds an      *)
(* error and derives one error from it with WithChanges.                      *)

MaxMetaOpts == 2

MaxMetaChanges == 2

\* The program's map m := map[string]MetadataValue{orderId, productType}
MetaHeap ==
    [NewHeap EXCEPT !.maps =
        Append(@, MapPut(MapPut(EmptyMap, "orderId", MetadataValue("3", VisibilityInternal)),
                         "productType", MetadataValue("p", VisibilityPublic)))]

MetaMap == Len(MetaHeap.maps)

MetaOptions ==
    { [Option("WithMetadataValue") EXCEPT !.n = VisibilityPublic, !.s = "orderId", !.t = "1"],
      [Option("WithMetadataValue") EXCEPT !.n = VisibilityInternal, !.s = "customerId", !.t = "c"],
      [Option("WithID") EXCEPT !.s = "id-1"] }

MetaChanges ==
    { [Option("WithChangeMetadata") EXCEPT !.m = MetaHeap.maps[MetaMap]],
      [Option("WithChangeMetadata") EXCEPT !.m = EmptyMap],
      [Option("WithChangeMetadataValue") EXCEPT !.n = VisibilityPrivate, !.s = "orderId", !.t = "9"],
      [Option("WithChangeMetadataValue") EXCEPT !.n = VisibilityPublic, !.s = "customerId", !.t = "2"],
      [Option("WithChangeID") EXCEPT !.s = "id-2"] }

MetaInit == heap = MetaHeap /\ last = NoCall /\ thr = NoThreads

MetaNewError ==
    /\ Len(heap.errs) = Len(MetaHeap.errs)
    /\ \E opts \in Seqs(MetaOptions, MaxMetaOpts) :
          LET r == NewError(heap, "d1", "r1", opts)
          IN heap' = r.h /\ last' = Call("NewError", 0, r.p, opts)
    /\ UNCHANGED thr

MetaWithChanges ==
    /\ Len(heap.errs) = Len(MetaHeap.errs) + 1
    /\ \E changes \in Seqs(MetaChanges, MaxMetaChanges) :
          LET r == WithChanges(heap, Len(heap.errs), changes)
          IN heap' = r.h /\ last' = Call("WithChanges", Len(heap.errs), r.p, changes)
    /\ UNCHANGED thr

MetaNext == MetaNewError \/ MetaWithChanges

SpecMeta == MetaInit /\ [][MetaNext]_vars

\* What the claim says the change options make of a metadata map, in
\* argument order: WithChangeMetadata(m) gives the entries of m,
\* WithChangeMetadataValue(v, k, x) sets key k and keeps the other entries
RECURSIVE MetadataAfter(_, _)
MetadataAfter(m, changes) ==
    IF changes = <<>> THEN m
    ELSE LET o == Head(changes)
             n == CASE o.k = "WithChangeMetadata" -> o.m
                    [] o.k = "WithChangeMetadataValue" ->
                           MapPut(m, o.s, MetadataValue(o.t, o.n))
                    [] OTHER -> m
         IN MetadataAfter(n, Tail(changes))

\* C30: the metadata of r = e.WithChanges(c...) is e's metadata with the
\* metadata change options of c applied in argument order, WithChangeMetadata(m)
\* replacing every entry by the entries of m and WithChangeMetadataValue
\* setting one key; r's map is not m, and m keeps its entries.
MetadataChanges ==
    last.op = "WithChanges" =>
        /\ Metadata(heap, last.res) = MetadataAfter(Metadata(heap, last.recv), last.opts)
        /\ heap.errs[last.res].metadata # MetaMap
        /\ heap.maps[MetaMap] = MetaHeap.maps[MetaMap]

\* e has customerId; WithChanges(WithChangeMetadata(m), WithChangeMetadataValue
\* (Private, orderId, 9)): customerId is dropped, orderId is the later value,
\* productType comes from m, and m still has orderId = 3
MetadataChangesWitness ==
    /\ last.op = "WithChanges"
    /\ Len(last.opts) = 2
    /\ last.opts[1].k = "WithChangeMetadata" /\ last.opts[1].m = MetaHeap.maps[MetaMap]
    /\ last.opts[2].k = "WithChangeMetadataValue" /\ last.opts[2].s = "orderId"
    /\ "customerId" \in DOMAIN Metadata(heap, last.recv)
    /\ DOMAIN Metadata(heap, last.res) = {"orderId", "productType"}
    /\ Metadata(heap, last.res)["orderId"] = MetadataValue("9", VisibilityPrivate)
    /\ heap.maps[MetaMap]["orderId"] = MetadataValue("3", VisibilityInternal)

====
